---------------------------- MODULE Spec2Model ----------------------------
(***************************************************************************)
(* A model of the iteration-level engine of vllm/engine/llm_engine.py:     *)
(* add_request, abort_request and step() with its output processor         *)
(* (_process_sequence_group_samples, _decode_sequence, _check_stop).       *)
(* The scheduler, the block manager, Sequence/SequenceGroup, RequestOutput *)
(* and the tokenizer live outside llm_engine.py; they are modelled from    *)
(* their contract and kept as small as the engine's use of them allows.    *)
(***************************************************************************)
EXTENDS Integers, Sequences, FiniteSets, TLC

(* ------------------------------ bounds --------------------------------- *)

\* Number of add_request calls in one behaviour.
MaxRequests == 2

\* Number of sequence ids the counter may hand out in one behaviour.
MaxSeqIds == 4

\* Largest number of samples the sampler returns for one parent in one step.
MaxSamplesPerParent == 2

\* The scheduling policy's chunk size: a pending prompt is processed this
\* many tokens at a time, or all at once.
ChunkSize == 2

\* Largest replica_id an engine is constructed with.
MaxReplicaId == 2

\* Largest block count profile_num_available_blocks returns.
MaxBlocks == 2

\* The GPU ids the workers may report are 0..MaxGpuId.
MaxGpuId == 3

\* Largest number of finished sequences a beam group holds at a stop decision.
MaxFinished == 3

\* Largest number of running children a beam group holds at a stop decision.
MaxRunning == 2

(* -------------------------- configuration ------------------------------ *)

\* scheduler_config.max_model_len
MaxModelLen == 5

\* tokenizer.eos_token_id
EosTokenId == 2

\* len(self.workers): the replicas driven in lock-step
Workers == {1, 2}

\* Request ids are named by numbers.  A client gives a request an id that
\* is in use already or the next unused one.
RequestIds == 1..MaxRequests

NoSeq == -1

(* ------------------------------ helpers -------------------------------- *)

Min(a, b) == IF a <= b THEN a ELSE b

Max(a, b) == IF a >= b THEN a ELSE b

\* Python: seq[lo:hi] on a list, 0-based, hi exclusive, both within range.
Slice(s, lo, hi) == SubSeq(s, lo + 1, Min(hi, Len(s)))

RECURSIVE Pow(_, _)
Pow(b, e) == IF e = 0 THEN 1 ELSE b * Pow(b, e - 1)

\* Python: text.endswith(s)
EndsWith(text, s) ==
    /\ Len(s) <= Len(text)
    /\ SubSeq(text, Len(text) - Len(s) + 1, Len(text)) = s

\* Python: text[:-len(s)].  -0 is 0, so an empty s leaves text[:0].
TruncateSuffix(text, s) ==
    IF Len(s) = 0 THEN <<>>
    ELSE SubSeq(text, 1, Max(Len(text) - Len(s), 0))

(* ----------------------------- tokenizer ------------------------------- *)

\* Text is a sequence of characters.
TxtQuick == <<" ", "q", "u", "i", "c", "k">>
TxtFox == <<" ", "f", "o", "x">>
TxtEnd == <<"E", "N", "D">>

\* The text a token id decodes to; the EOS token is a special token and is
\* skipped (skip_special_tokens=True).
TokenText(tok) ==
    CASE tok = 40 -> TxtQuick
      [] tok = 50 -> TxtFox
      [] tok = 60 -> TxtEnd
      [] OTHER -> <<>>

RECURSIVE DecodeFrom(_, _)
DecodeFrom(ids, from) ==
    IF from > Len(ids) THEN <<>>
    ELSE TokenText(ids[from]) \o DecodeFrom(ids, from + 1)

\* detokenize_incrementally: the text of the token ids not read so far and
\* the new read offset.  On the first call (no previous tokens) only the
\* newest token is unread: the prompt is not part of output_text.
DetokenizeIncrementally(all_input_ids, first_call, read_offset) ==
    LET from == IF first_call THEN Len(all_input_ids) - 1 ELSE read_offset
    IN  [new_text |-> DecodeFrom(all_input_ids, from + 1),
         read_offset |-> Len(all_input_ids)]

(* ----------------------------- Sequence -------------------------------- *)

FinishedStatuses ==
    {"FINISHED_STOPPED", "FINISHED_LENGTH_CAPPED", "FINISHED_ABORTED",
     "FINISHED_IGNORED"}

IsFinished(seq) == seq.status \in FinishedStatuses

GetLen(seq) == Len(seq.token_ids)

GetOutputLen(seq) == Len(seq.token_ids) - seq.prompt_len

GetOutputTokenIds(seq) == SubSeq(seq.token_ids, seq.prompt_len + 1, Len(seq.token_ids))

GetLastTokenId(seq) == seq.token_ids[Len(seq.token_ids)]

\* The elements of a list.
Range(s) == {s[i] : i \in 1..Len(s)}

NewSequence(seq_id, prompt_token_ids) ==
    [seq_id |-> seq_id,
     prompt_len |-> Len(prompt_token_ids),
     token_ids |-> prompt_token_ids,
     prompt_tokens_processed |-> 0,
     prompt_processing_finished |-> FALSE,
     cumulative_logprob |-> 0,
     status |-> "WAITING",
     decoded |-> FALSE,
     read_offset |-> 0,
     output_text |-> <<>>]

\* Sequence.append_token_id: a step that does not consume the last prompt
\* chunk only advances the prompt; otherwise the sampled token is appended.
AppendTokenId(seq, token, logprob, prompt_chunk_len) ==
    LET processed == IF seq.prompt_processing_finished
                     THEN seq.prompt_tokens_processed
                     ELSE Min(seq.prompt_tokens_processed + prompt_chunk_len,
                              seq.prompt_len)
        done == processed = seq.prompt_len
    IN  IF ~done
        THEN [seq EXCEPT !.prompt_tokens_processed = processed]
        ELSE [seq EXCEPT !.prompt_tokens_processed = processed,
                         !.prompt_processing_finished = TRUE,
                         !.token_ids = Append(@, token),
                         !.cumulative_logprob = @ + logprob]

\* Sequence.fork: a copy with a new id.
Fork(seq, new_seq_id) == [seq EXCEPT !.seq_id = new_seq_id]

\* Sequence.get_beam_search_score as a fraction num/den, den > 0.  The
\* length does not count a trailing EOS unless seq_len is given (0: not given).
GetBeamSearchScore(seq, length_penalty, seq_len) ==
    LET len == IF seq_len # 0 THEN seq_len
               ELSE IF GetLastTokenId(seq) = EosTokenId
                    THEN GetLen(seq) - 1 ELSE GetLen(seq)
    IN  [num |-> seq.cumulative_logprob, den |-> Pow(len, length_penalty)]

\* a >= b on fractions with positive denominators
ScoreGeq(a, b) == a.num * b.den >= b.num * a.den

(* ------------------------- _decode_sequence ---------------------------- *)

\* LLMEngine._decode_sequence
DecodeSequence(seq) ==
    LET d == DetokenizeIncrementally(seq.token_ids, ~seq.decoded, seq.read_offset)
    IN  [seq EXCEPT !.decoded = TRUE,
                    !.read_offset = d.read_offset,
                    !.output_text = @ \o d.new_text]

(* ---------------------------- _check_stop ------------------------------ *)

\* The index of the first stop string, in list order, output_text ends
\* with; 0 when there is none (the for loop of _check_stop).
RECURSIVE FirstStopMatch(_, _, _)
FirstStopMatch(text, stop, i) ==
    IF i > Len(stop) THEN 0
    ELSE IF EndsWith(text, stop[i]) THEN i
    ELSE FirstStopMatch(text, stop, i + 1)

\* A _check_stop that tests EOS before the length caps.
CheckStopEosFirst(seq, sampling_params) ==
    LET m == FirstStopMatch(seq.output_text, sampling_params.stop, 1)
    IN  IF m # 0
        THEN [seq EXCEPT !.output_text = TruncateSuffix(@, sampling_params.stop[m]),
                         !.status = "FINISHED_STOPPED"]
        ELSE IF (~sampling_params.ignore_eos) /\ GetLastTokenId(seq) = EosTokenId
        THEN [seq EXCEPT !.status = "FINISHED_STOPPED"]
        ELSE IF GetLen(seq) > MaxModelLen
        THEN [seq EXCEPT !.status = "FINISHED_LENGTH_CAPPED"]
        ELSE IF GetOutputLen(seq) = sampling_params.max_tokens
        THEN [seq EXCEPT !.status = "FINISHED_LENGTH_CAPPED"]
        ELSE seq

\* A _check_stop that never finishes a sequence on EOS.
CheckStopNoEos(seq, sampling_params) ==
    LET m == FirstStopMatch(seq.output_text, sampling_params.stop, 1)
    IN  IF m # 0
        THEN [seq EXCEPT !.output_text = TruncateSuffix(@, sampling_params.stop[m]),
                         !.status = "FINISHED_STOPPED"]
        ELSE IF GetLen(seq) > MaxModelLen
        THEN [seq EXCEPT !.status = "FINISHED_LENGTH_CAPPED"]
        ELSE IF GetOutputLen(seq) = sampling_params.max_tokens
        THEN [seq EXCEPT !.status = "FINISHED_LENGTH_CAPPED"]
        ELSE seq

\* A _check_stop without the max_tokens test.
CheckStopNoMaxTokens(seq, sampling_params) ==
    LET m == FirstStopMatch(seq.output_text, sampling_params.stop, 1)
    IN  IF m # 0
        THEN [seq EXCEPT !.output_text = TruncateSuffix(@, sampling_params.stop[m]),
                         !.status = "FINISHED_STOPPED"]
        ELSE IF GetLen(seq) > MaxModelLen
        THEN [seq EXCEPT !.status = "FINISHED_LENGTH_CAPPED"]
        ELSE IF (~sampling_params.ignore_eos) /\ GetLastTokenId(seq) = EosTokenId
        THEN [seq EXCEPT !.status = "FINISHED_STOPPED"]
        ELSE seq

\* A _check_stop without the max_model_len test.
CheckStopNoMaxModelLen(seq, sampling_params) ==
    LET m == FirstStopMatch(seq.output_text, sampling_params.stop, 1)
    IN  IF m # 0
        THEN [seq EXCEPT !.output_text = TruncateSuffix(@, sampling_params.stop[m]),
                         !.status = "FINISHED_STOPPED"]
        ELSE IF GetOutputLen(seq) = sampling_params.max_tokens
        THEN [seq EXCEPT !.status = "FINISHED_LENGTH_CAPPED"]
        ELSE IF (~sampling_params.ignore_eos) /\ GetLastTokenId(seq) = EosTokenId
        THEN [seq EXCEPT !.status = "FINISHED_STOPPED"]
        ELSE seq

\* LLMEngine._check_stop
CheckStop(seq, sampling_params) ==
    LET m == FirstStopMatch(seq.output_text, sampling_params.stop, 1)
    IN  IF m # 0
        THEN [seq EXCEPT !.output_text = TruncateSuffix(@, sampling_params.stop[m]),
                         !.status = "FINISHED_STOPPED"]
        ELSE IF GetLen(seq) > MaxModelLen
        THEN [seq EXCEPT !.status = "FINISHED_LENGTH_CAPPED"]
        ELSE IF GetOutputLen(seq) = sampling_params.max_tokens
        THEN [seq EXCEPT !.status = "FINISHED_LENGTH_CAPPED"]
        ELSE IF (~sampling_params.ignore_eos) /\ GetLastTokenId(seq) = EosTokenId
        THEN [seq EXCEPT !.status = "FINISHED_STOPPED"]
        ELSE seq

(* --------------------- the output processor's state -------------------- *)

(* The output processor works on a record ps of the engine's objects:      *)
(*   seqs     every Sequence object created so far, by seq_id              *)
(*   groups   every SequenceGroup created so far, in creation order        *)
(*   alloc    the seq_ids that hold a block table in the block manager     *)
(*   freed    the seq_ids scheduler.free_seq has been called for           *)
(*   counter  the next value of seq_counter                                *)
(*   calls    the scheduler calls issued in this step, in order, each with *)
(*            the group being processed and the place it was issued from:  *)
(*            "no_samples" (line 419), "new_child" (452, 547),             *)
(*            "finished_parent" (460, 553), "unselected_parent" (562),     *)
(*            "finished_groups" (577)                                      *)
(*   checks   the _decode_sequence/_check_stop runs of this step, in order *)

SeqOf(ps, sid) == ps.seqs[sid]

SetSeq(ps, seq) == [ps EXCEPT !.seqs[seq.seq_id] = seq]

\* Adds a new Sequence object under the next id.
PutNewSeq(ps, seq) ==
    [ps EXCEPT !.seqs = [i \in (DOMAIN ps.seqs) \cup {seq.seq_id} |->
                            IF i = seq.seq_id THEN seq ELSE ps.seqs[i]],
               !.counter = @ + 1]

\* SequenceGroup.get_seqs(status)
GetSeqs(ps, g, status) ==
    SelectSeq(ps.groups[g].seq_ids, LAMBDA sid : ps.seqs[sid].status = status)

\* SequenceGroup.get_finished_seqs
GetFinishedSeqs(ps, g) ==
    SelectSeq(ps.groups[g].seq_ids, LAMBDA sid : IsFinished(ps.seqs[sid]))

\* SequenceGroup.is_finished
GroupIsFinished(seqs_, group) ==
    \A i \in 1..Len(group.seq_ids) : IsFinished(seqs_[group.seq_ids[i]])

\* SequenceGroup.add
GroupAdd(ps, g, sid) == [ps EXCEPT !.groups[g].seq_ids = Append(@, sid)]

\* SequenceGroup.remove
GroupRemove(ps, g, sid) ==
    [ps EXCEPT !.groups[g].seq_ids = SelectSeq(@, LAMBDA x : x # sid)]

\* Scheduler.fork_seq -> BlockManager.fork: the child gets a block table
\* sharing the parent's blocks.  The call is recorded with what was true of
\* the parent when it was made.
SchedulerForkSeq(ps, parent, child, g, site) ==
    [ps EXCEPT !.alloc = @ \cup {child},
               !.calls = Append(@, [op |-> "fork_seq", seq |-> child,
                                    parent |-> parent, group |-> g,
                                    site |-> site,
                                    held |-> parent \in ps.alloc,
                                    freed_before |-> parent \in ps.freed])]

\* Scheduler.free_seq -> BlockManager.free: the sequence's block table goes.
SchedulerFreeSeq(ps, sid, g, site) ==
    [ps EXCEPT !.alloc = @ \ {sid},
               !.freed = @ \cup {sid},
               !.calls = Append(@, [op |-> "free_seq", seq |-> sid,
                                    parent |-> NoSeq, group |-> g,
                                    site |-> site,
                                    held |-> sid \in ps.alloc,
                                    freed_before |-> sid \in ps.freed])]

(* ------------------ _process_sequence_group_samples -------------------- *)

\* The samples of one parent, in the sampler's order (parent_child_dict).
ChildSamples(samples, parent) ==
    SelectSeq(samples, LAMBDA s : s.parent_seq_id = parent)

\* A fork that takes the parent after the token of the sample was appended
\* to it.
ForkChildAfterAppend(acc, parent, child_sample, prompt_chunk_len) ==
    [ps |-> PutNewSeq(SetSeq(acc.ps,
                             AppendTokenId(SeqOf(acc.ps, parent),
                                           child_sample.output_token,
                                           child_sample.logprob, prompt_chunk_len)),
                      AppendTokenId(Fork(SeqOf(acc.ps, parent), acc.ps.counter),
                                    child_sample.output_token,
                                    child_sample.logprob, prompt_chunk_len)),
     child_seqs |-> Append(acc.child_seqs,
                           [seq |-> acc.ps.counter, parent |-> parent])]

\* Lines 423-428: fork the parent under the next sequence id and append
\* the sample's token to the fork.  acc is [ps, child_seqs]; child_seqs is
\* the list of (child, parent).
ForkChild(acc, parent, child_sample, prompt_chunk_len) ==
    [ps |-> PutNewSeq(acc.ps,
                      AppendTokenId(Fork(SeqOf(acc.ps, parent), acc.ps.counter),
                                    child_sample.output_token,
                                    child_sample.logprob, prompt_chunk_len)),
     child_seqs |-> Append(acc.child_seqs,
                           [seq |-> acc.ps.counter, parent |-> parent])]

\* Lines 422-428: one fork per sample but the last.
RECURSIVE ForkChildren(_, _, _, _, _)
ForkChildren(acc, parent, child_samples, i, prompt_chunk_len) ==
    IF i > Len(child_samples) - 1 THEN acc
    ELSE ForkChildren(ForkChild(acc, parent, child_samples[i], prompt_chunk_len),
                      parent, child_samples, i + 1, prompt_chunk_len)

\* A continuation that leaves the parent as it was: no append_token_id.
ContinueParentWithoutAppend(acc, parent, last_child_sample, prompt_chunk_len) ==
    [ps |-> acc.ps,
     child_seqs |-> Append(acc.child_seqs, [seq |-> parent, parent |-> parent])]

\* Lines 432-436: the last sample continues the parent itself.
ContinueParent(acc, parent, last_child_sample, prompt_chunk_len) ==
    [ps |-> SetSeq(acc.ps, AppendTokenId(SeqOf(acc.ps, parent),
                                         last_child_sample.output_token,
                                         last_child_sample.logprob,
                                         prompt_chunk_len)),
     child_seqs |-> Append(acc.child_seqs, [seq |-> parent, parent |-> parent])]

\* A parent without samples that is aborted and freed but stays in the group.
AbortParentStaysInGroup(ps, g, parent) ==
    SchedulerFreeSeq([ps EXCEPT !.seqs[parent].status = "FINISHED_ABORTED"],
                     parent, g, "no_samples")

\* Lines 417-419: a parent without samples is aborted, leaves the group and
\* is freed.
AbortParent(ps, g, parent) ==
    SchedulerFreeSeq(
        GroupRemove([ps EXCEPT !.seqs[parent].status = "FINISHED_ABORTED"],
                    g, parent),
        parent, g, "no_samples")

\* Lines 411-436: one parent of the loop.
ApplyToParent(acc, g, parent, child_samples, prompt_chunk_len) ==
    IF Len(child_samples) = 0
    THEN [acc EXCEPT !.ps = AbortParent(@, g, parent)]
    ELSE ContinueParent(ForkChildren(acc, parent, child_samples, 1,
                                     prompt_chunk_len),
                        parent, child_samples[Len(child_samples)],
                        prompt_chunk_len)

\* Lines 410-436: the loop over the parents.
RECURSIVE ApplySamples(_, _, _, _, _, _)
ApplySamples(acc, g, parent_seqs, i, samples, prompt_chunk_len) ==
    IF i > Len(parent_seqs) THEN acc
    ELSE ApplySamples(ApplyToParent(acc, g, parent_seqs[i],
                                    ChildSamples(samples, parent_seqs[i]),
                                    prompt_chunk_len),
                      g, parent_seqs, i + 1, samples, prompt_chunk_len)

\* The record of one _decode_sequence/_check_stop run.
CheckEntry(g, decoded, checked) ==
    [seq |-> decoded.seq_id, group |-> g,
     text |-> decoded.output_text,
     total_len |-> GetLen(decoded),
     output_len |-> GetOutputLen(decoded),
     last_token |-> GetLastTokenId(decoded),
     status |-> checked.status,
     output_text |-> checked.output_text]

\* Lines 441-442 for one sequence.
DecodeAndCheckSeq(ps, g, decoded) ==
    [ps EXCEPT !.seqs[decoded.seq_id] =
                   CheckStop(decoded, ps.groups[g].sampling_params),
               !.checks = Append(@, CheckEntry(g, decoded,
                                    CheckStop(decoded,
                                              ps.groups[g].sampling_params)))]

\* A loop that decodes and stop-checks every child, whatever is left of its
\* prompt.
RECURSIVE DecodeAndCheckEveryChild(_, _, _, _)
DecodeAndCheckEveryChild(ps, g, child_seqs, i) ==
    IF i > Len(child_seqs) THEN ps
    ELSE DecodeAndCheckEveryChild(
             DecodeAndCheckSeq(ps, g, DecodeSequence(SeqOf(ps, child_seqs[i].seq))),
             g, child_seqs, i + 1)

\* Lines 438-442: decode and stop-check every child whose prompt is consumed.
RECURSIVE DecodeAndCheck(_, _, _, _)
DecodeAndCheck(ps, g, child_seqs, i) ==
    IF i > Len(child_seqs) THEN ps
    ELSE DecodeAndCheck(
             IF ~SeqOf(ps, child_seqs[i].seq).prompt_processing_finished
             THEN ps
             ELSE DecodeAndCheckSeq(ps, g,
                                    DecodeSequence(SeqOf(ps, child_seqs[i].seq))),
             g, child_seqs, i + 1)

\* Lines 448-452 and 543-547: add the new children to the group and fork
\* the unfinished ones in the block manager.
RECURSIVE AddAndForkChildren(_, _, _, _)
AddAndForkChildren(ps, g, pairs, i) ==
    IF i > Len(pairs) THEN ps
    ELSE AddAndForkChildren(
             IF pairs[i].seq = pairs[i].parent THEN ps
             ELSE IF IsFinished(SeqOf(ps, pairs[i].seq))
             THEN GroupAdd(ps, g, pairs[i].seq)
             ELSE SchedulerForkSeq(GroupAdd(ps, g, pairs[i].seq),
                                   pairs[i].parent, pairs[i].seq, g, "new_child"),
             g, pairs, i + 1)

\* A free loop without the test `seq is parent`: every finished child is
\* freed, the new ones included.
RECURSIVE FreeFinishedSeqs(_, _, _, _)
FreeFinishedSeqs(ps, g, pairs, i) ==
    IF i > Len(pairs) THEN ps
    ELSE FreeFinishedSeqs(
             IF IsFinished(SeqOf(ps, pairs[i].seq))
             THEN SchedulerFreeSeq(ps, pairs[i].seq, g, "finished_parent")
             ELSE ps,
             g, pairs, i + 1)

\* Lines 458-460 and 551-553: free the finished continued parents.
RECURSIVE FreeFinishedParents(_, _, _, _)
FreeFinishedParents(ps, g, pairs, i) ==
    IF i > Len(pairs) THEN ps
    ELSE FreeFinishedParents(
             IF pairs[i].seq = pairs[i].parent /\ IsFinished(SeqOf(ps, pairs[i].seq))
             THEN SchedulerFreeSeq(ps, pairs[i].seq, g, "finished_parent")
             ELSE ps,
             g, pairs, i + 1)

\* A non-beam branch that frees the finished parents before it forks.
NonBeamBranchFreeFirst(ps, g, child_seqs) ==
    AddAndForkChildren(FreeFinishedParents(ps, g, child_seqs, 1), g, child_seqs, 1)

\* A non-beam branch that does not free the finished parents.
NonBeamBranchNoFree(ps, g, child_seqs) ==
    AddAndForkChildren(ps, g, child_seqs, 1)

\* Lines 444-461: the non-beam branch.
NonBeamBranch(ps, g, child_seqs) ==
    FreeFinishedParents(AddAndForkChildren(ps, g, child_seqs, 1), g, child_seqs, 1)

(* --------------------------- beam search ------------------------------- *)

\* A sort that leaves out reverse=True: ascending by score, stable.
RECURSIVE SortByScoreAscending(_, _, _)
SortByScoreAscending(ps, items, length_penalty) ==
    IF items = <<>> THEN <<>>
    ELSE SelectSeq(SortByScoreAscending(ps, SubSeq(items, 1, Len(items) - 1),
                                        length_penalty),
                   LAMBDA x :
                       ScoreGeq(GetBeamSearchScore(SeqOf(ps, items[Len(items)].seq),
                                                   length_penalty, 0),
                                GetBeamSearchScore(SeqOf(ps, x.seq),
                                                   length_penalty, 0)))
         \o <<items[Len(items)]>>
         \o SelectSeq(SortByScoreAscending(ps, SubSeq(items, 1, Len(items) - 1),
                                           length_penalty),
                      LAMBDA x :
                          ~ScoreGeq(GetBeamSearchScore(SeqOf(ps, items[Len(items)].seq),
                                                       length_penalty, 0),
                                    GetBeamSearchScore(SeqOf(ps, x.seq),
                                                       length_penalty, 0)))

\* Where list.sort(key=score, reverse=True) puts an item among the sorted
\* items before it: behind every item of a score at least its own (the sort
\* is descending and stable).
InsertByScore(ps, front, item, length_penalty) ==
    SelectSeq(front, LAMBDA x :
        ScoreGeq(GetBeamSearchScore(SeqOf(ps, x.seq), length_penalty, 0),
                 GetBeamSearchScore(SeqOf(ps, item.seq), length_penalty, 0)))
    \o <<item>>
    \o SelectSeq(front, LAMBDA x :
        ~ScoreGeq(GetBeamSearchScore(SeqOf(ps, x.seq), length_penalty, 0),
                  GetBeamSearchScore(SeqOf(ps, item.seq), length_penalty, 0)))

\* list.sort(key=score, reverse=True).  items are (seq, parent, is_new).
RECURSIVE SortByScore(_, _, _)
SortByScore(ps, items, length_penalty) ==
    IF items = <<>> THEN <<>>
    ELSE InsertByScore(ps,
                       SortByScore(ps, SubSeq(items, 1, Len(items) - 1),
                                   length_penalty),
                       items[Len(items)], length_penalty)

\* An attainable score that is always taken at the current length.
HighestAttainableScoreAtCurrentLength(early_stopping, sampling_params, best_running_seq) ==
    GetBeamSearchScore(best_running_seq, sampling_params.length_penalty, 0)

\* Lines 372-392: the score the best running sequence can still reach.
HighestAttainableScore(early_stopping, sampling_params, best_running_seq) ==
    IF early_stopping = "false"
    THEN GetBeamSearchScore(best_running_seq, sampling_params.length_penalty, 0)
    ELSE IF sampling_params.length_penalty > 0
    THEN GetBeamSearchScore(best_running_seq, sampling_params.length_penalty,
                            Max(best_running_seq.prompt_len
                                + sampling_params.max_tokens, MaxModelLen))
    ELSE GetBeamSearchScore(best_running_seq, sampling_params.length_penalty, 0)

\* LLMEngine._check_beam_search_early_stopping
CheckBeamSearchEarlyStopping(early_stopping, sampling_params, best_running_seq, current_worst_seq) ==
    IF early_stopping = "true" THEN TRUE
    ELSE ScoreGeq(GetBeamSearchScore(current_worst_seq,
                                     sampling_params.length_penalty, 0),
                  HighestAttainableScore(early_stopping, sampling_params,
                                         best_running_seq))

\* Line 499: the existing finished sequences below the cut leave the group.
RECURSIVE RemoveExisting(_, _, _, _)
RemoveExisting(ps, g, items, i) ==
    IF i > Len(items) THEN ps
    ELSE RemoveExisting(IF items[i].is_new THEN ps
                        ELSE GroupRemove(ps, g, items[i].seq),
                        g, items, i + 1)

\* Lines 557-562: the unselected continued parents leave the group and are
\* freed.
RECURSIVE RemoveUnselected(_, _, _, _)
RemoveUnselected(ps, g, pairs, i) ==
    IF i > Len(pairs) THEN ps
    ELSE RemoveUnselected(
             IF pairs[i].seq = pairs[i].parent
             THEN SchedulerFreeSeq(GroupRemove(ps, g, pairs[i].seq),
                                   pairs[i].seq, g, "unselected_parent")
             ELSE ps,
             g, pairs, i + 1)

\* A list of the finished sequences with the new ones first.
AllFinishedSeqsNewFirst(ps, child_seqs, existing_finished_seqs) ==
    SelectSeq([i \in 1..Len(child_seqs) |->
                  [seq |-> child_seqs[i].seq, parent |-> child_seqs[i].parent,
                   is_new |-> TRUE]],
              LAMBDA x : IsFinished(SeqOf(ps, x.seq)))
    \o [i \in 1..Len(existing_finished_seqs) |->
           [seq |-> existing_finished_seqs[i], parent |-> NoSeq, is_new |-> FALSE]]

\* Lines 473-477: the finished sequences, the existing ones first.
\* existing_finished_seqs is the group's finished list taken before the
\* samples were applied (line 399).
AllFinishedSeqs(ps, child_seqs, existing_finished_seqs) ==
    [i \in 1..Len(existing_finished_seqs) |->
        [seq |-> existing_finished_seqs[i], parent |-> NoSeq, is_new |-> FALSE]]
    \o SelectSeq([i \in 1..Len(child_seqs) |->
                     [seq |-> child_seqs[i].seq, parent |-> child_seqs[i].parent,
                      is_new |-> TRUE]],
                 LAMBDA x : IsFinished(SeqOf(ps, x.seq)))

\* Lines 504-505: the children still running.
RunningChildSeqs(ps, child_seqs) ==
    SelectSeq([i \in 1..Len(child_seqs) |->
                  [seq |-> child_seqs[i].seq, parent |-> child_seqs[i].parent,
                   is_new |-> TRUE]],
              LAMBDA x : ~IsFinished(SeqOf(ps, x.seq)))

\* A decision that looks at early_stopping before it counts the finished
\* sequences.
StopBeamSearchEarlyStoppingFirst(ps, sampling_params, all_finished_seqs, running_child_seqs) ==
    IF Len(running_child_seqs) = 0 THEN TRUE
    ELSE IF sampling_params.early_stopping = "true" THEN TRUE
    ELSE IF Len(all_finished_seqs) < sampling_params.best_of THEN FALSE
    ELSE CheckBeamSearchEarlyStopping(
             sampling_params.early_stopping, sampling_params,
             SeqOf(ps, running_child_seqs[1].seq),
             SeqOf(ps, all_finished_seqs[sampling_params.best_of].seq))

\* Lines 512-525: whether the beam search stops, from the sorted lists.
StopBeamSearch(ps, sampling_params, all_finished_seqs, running_child_seqs) ==
    IF Len(running_child_seqs) = 0 THEN TRUE
    ELSE IF Len(all_finished_seqs) < sampling_params.best_of THEN FALSE
    ELSE CheckBeamSearchEarlyStopping(
             sampling_params.early_stopping, sampling_params,
             SeqOf(ps, running_child_seqs[1].seq),
             SeqOf(ps, all_finished_seqs[sampling_params.best_of].seq))

\* A beam branch that keeps the running children although the search stops.
SelectChildSeqsKeepsRunning(beam_width, all_finished_seqs, running_child_seqs, stop_beam_search) ==
    [below |-> Slice(all_finished_seqs, beam_width, Len(all_finished_seqs)),
     stop_beam_search |-> stop_beam_search,
     selected_child_seqs |->
         SelectSeq(Slice(all_finished_seqs, 0, beam_width), LAMBDA x : x.is_new)
         \o Slice(running_child_seqs, 0, beam_width),
     unselected_child_seqs |->
         SelectSeq(Slice(all_finished_seqs, beam_width, Len(all_finished_seqs)),
                   LAMBDA x : x.is_new)
         \o Slice(running_child_seqs, beam_width, Len(running_child_seqs))]

\* Lines 483-499 and 527-539: the selected and the unselected children.
SelectChildSeqs(beam_width, all_finished_seqs, running_child_seqs, stop_beam_search) ==
    [below |-> Slice(all_finished_seqs, beam_width, Len(all_finished_seqs)),
     stop_beam_search |-> stop_beam_search,
     selected_child_seqs |->
         SelectSeq(Slice(all_finished_seqs, 0, beam_width), LAMBDA x : x.is_new)
         \o (IF stop_beam_search THEN <<>>
             ELSE Slice(running_child_seqs, 0, beam_width)),
     unselected_child_seqs |->
         SelectSeq(Slice(all_finished_seqs, beam_width, Len(all_finished_seqs)),
                   LAMBDA x : x.is_new)
         \o (IF stop_beam_search THEN running_child_seqs
             ELSE Slice(running_child_seqs, beam_width, Len(running_child_seqs)))]

\* Lines 463-539 on the sorted lists.
BeamSelectionOfSorted(ps, sampling_params, all_finished_seqs, running_child_seqs) ==
    SelectChildSeqs(sampling_params.best_of, all_finished_seqs,
                    running_child_seqs,
                    StopBeamSearch(ps, sampling_params, all_finished_seqs,
                                   running_child_seqs))

\* Lines 463-539: which children are kept.
BeamSelection(ps, g, child_seqs, existing_finished_seqs) ==
    BeamSelectionOfSorted(
        ps, ps.groups[g].sampling_params,
        SortByScore(ps, AllFinishedSeqs(ps, child_seqs, existing_finished_seqs),
                    ps.groups[g].sampling_params.length_penalty),
        SortByScore(ps, RunningChildSeqs(ps, child_seqs),
                    ps.groups[g].sampling_params.length_penalty))

\* Lines 512-525: the decision taken for the group is kept with the calls
\* of the step.
RecordStopBeamSearch(ps, g, stop_beam_search) ==
    [ps EXCEPT !.calls = Append(@, [op |-> "stop_beam_search",
                                    seq |-> NoSeq, parent |-> NoSeq,
                                    group |-> g,
                                    site |-> IF stop_beam_search THEN "stop" ELSE "continue",
                                    held |-> FALSE, freed_before |-> FALSE])]

\* A beam branch that frees the finished parents before it forks.
ApplyBeamSelectionFreeFirst(ps, g, sel) ==
    AddAndForkChildren(
        RemoveUnselected(
            FreeFinishedParents(
                RemoveExisting(RecordStopBeamSearch(ps, g, sel.stop_beam_search),
                               g, sel.below, 1),
                g, sel.selected_child_seqs, 1),
            g, sel.unselected_child_seqs, 1),
        g, sel.selected_child_seqs, 1)

\* Lines 499 and 541-562: the group and the block manager follow the
\* selection: fork the selected new children, free the selected finished
\* parents, drop the unselected parents.
ApplyBeamSelection(ps, g, sel) ==
    RemoveUnselected(
        FreeFinishedParents(
            AddAndForkChildren(
                RemoveExisting(RecordStopBeamSearch(ps, g, sel.stop_beam_search),
                               g, sel.below, 1),
                g, sel.selected_child_seqs, 1),
            g, sel.selected_child_seqs, 1),
        g, sel.unselected_child_seqs, 1)

\* Lines 463-562: the beam branch.
BeamBranch(ps, g, child_seqs, existing_finished_seqs) ==
    ApplyBeamSelection(ps, g,
                       BeamSelection(ps, g, child_seqs, existing_finished_seqs))

\* Lines 444-562: the branch taken once the children are checked.
SelectBranch(ps, g, child_seqs, existing_finished_seqs) ==
    IF ~ps.groups[g].sampling_params.use_beam_search
    THEN NonBeamBranch(ps, g, child_seqs)
    ELSE BeamBranch(ps, g, child_seqs, existing_finished_seqs)

\* Lines 438-562, given the outcome of the loop over the parents.
ProcessChildSeqs(applied, g, existing_finished_seqs) ==
    SelectBranch(DecodeAndCheck(applied.ps, g, applied.child_seqs, 1), g,
                 applied.child_seqs, existing_finished_seqs)

\* LLMEngine._process_sequence_group_samples.  A sample whose parent is not
\* a RUNNING member of the group has no key in parent_child_dict: line 405
\* raises KeyError before anything of the group is touched.
ProcessSequenceGroupSamples(ps, g, prompt_chunk_len, samples) ==
    IF \E i \in 1..Len(samples) :
          samples[i].parent_seq_id \notin Range(GetSeqs(ps, g, "RUNNING"))
    THEN [ps EXCEPT !.raised = "KeyError"]
    ELSE ProcessChildSeqs(ApplySamples([ps |-> ps, child_seqs |-> <<>>], g,
                                       GetSeqs(ps, g, "RUNNING"), 1, samples,
                                       prompt_chunk_len),
                          g, GetFinishedSeqs(ps, g))

(* ---------------------------- RequestOutput ---------------------------- *)

\* One CompletionOutput of a RequestOutput.
CompletionOutput(seq) ==
    [seq_id |-> seq.seq_id,
     text |-> seq.output_text,
     token_ids |-> GetOutputTokenIds(seq),
     cumulative_logprob |-> seq.cumulative_logprob,
     finish_reason |-> seq.status]

\* RequestOutput.from_seq_group: one entry per member of the group.
RequestOutputFromSeqGroup(seqs_, g, group) ==
    [request_id |-> group.request_id,
     group |-> g,
     outputs |-> [i \in 1..Len(group.seq_ids) |->
                     CompletionOutput(seqs_[group.seq_ids[i]])],
     finished |-> GroupIsFinished(seqs_, group)]

RequestOutputs(seqs_, groups_, gs) ==
    [i \in 1..Len(gs) |-> RequestOutputFromSeqGroup(seqs_, gs[i], groups_[gs[i]])]

(* ------------------------ _process_model_outputs ----------------------- *)

\* Scheduler.free_finished_seq_groups: the finished groups leave the
\* running queue.
FreeFinishedSeqGroups(ps) ==
    [ps EXCEPT !.running = SelectSeq(@, LAMBDA g :
                               ~GroupIsFinished(ps.seqs, ps.groups[g])),
               !.calls = Append(@, [op |-> "free_finished_seq_groups",
                                    seq |-> NoSeq, parent |-> NoSeq,
                                    group |-> 0, site |-> "finished_groups",
                                    held |-> FALSE, freed_before |-> FALSE])]

\* Lines 571-574: zip(scheduled_seq_groups, prompt_chunk_lens, output).  The
\* loop ends at the first group that raises; what it did to the groups
\* before stays.
RECURSIVE ProcessGroups(_, _, _, _)
ProcessGroups(ps, plan_, output, i) ==
    IF \/ ps.raised # "none"
       \/ i > Min(Len(plan_.scheduled_seq_groups),
                  Min(Len(plan_.prompt_chunk_lens), Len(output)))
    THEN ps
    ELSE ProcessGroups(
             ProcessSequenceGroupSamples(ps, plan_.scheduled_seq_groups[i],
                                         plan_.prompt_chunk_lens[i], output[i]),
             plan_, output, i + 1)

\* A list of outputs that leaves out the groups that are finished.
CreateOutputsUnfinishedOnly(processed, plan_) ==
    [ps |-> processed,
     request_outputs |->
         RequestOutputs(processed.seqs, processed.groups,
                        SelectSeq(plan_.scheduled_seq_groups, LAMBDA g :
                            ~GroupIsFinished(processed.seqs, processed.groups[g])))]

\* Lines 579-584: a RequestOutput per scheduled and per ignored group.
CreateOutputs(processed, plan_) ==
    [ps |-> processed,
     request_outputs |->
         RequestOutputs(processed.seqs, processed.groups,
                        plan_.scheduled_seq_groups \o plan_.ignored_seq_groups)]

\* A _process_model_outputs that leaves the finished groups in the scheduler.
ProcessModelOutputsNoFree(ps, plan_, output) ==
    CreateOutputs(ProcessGroups(ps, plan_, output, 1), plan_)

\* Lines 576-584, reached unless a group raised.
FreeAndCreateOutputs(processed, plan_) ==
    IF processed.raised # "none"
    THEN [ps |-> processed, request_outputs |-> <<>>]
    ELSE CreateOutputs(FreeFinishedSeqGroups(processed), plan_)

\* LLMEngine._process_model_outputs: the state after it and the outputs.
ProcessModelOutputs(ps, plan_, output) ==
    FreeAndCreateOutputs(ProcessGroups(ps, plan_, output, 1), plan_)

(* ------------------------------- inputs -------------------------------- *)

SamplingParams(n, best_of, use_beam_search, length_penalty, early_stopping, max_tokens, stop, ignore_eos) ==
    [n |-> n, best_of |-> best_of, use_beam_search |-> use_beam_search,
     length_penalty |-> length_penalty, early_stopping |-> early_stopping,
     max_tokens |-> max_tokens, stop |-> stop, ignore_eos |-> ignore_eos]

\* n=1, greedy, max_tokens=2
Greedy2 == SamplingParams(1, 1, FALSE, 1, "false", 2, <<>>, FALSE)

\* n=1, greedy, max_tokens=10
Greedy10 == SamplingParams(1, 1, FALSE, 1, "false", 10, <<>>, FALSE)

\* n=1, stop=["END"]
StopEnd == SamplingParams(1, 1, FALSE, 1, "false", 10, <<TxtEnd>>, FALSE)

\* n=1, stop=["D", "END"]: one stop string is a suffix of the other
StopOverlap == SamplingParams(1, 1, FALSE, 1, "false", 10, <<<<"D">>, TxtEnd>>, FALSE)

\* n=1, stop=[""]
StopEmptyString == SamplingParams(1, 1, FALSE, 1, "false", 10, <<<<>>>>, FALSE)

\* n=1, ignore_eos
IgnoreEos == SamplingParams(1, 1, FALSE, 1, "false", 2, <<>>, TRUE)

\* n=2, best_of=2, random sampling
Sample2 == SamplingParams(2, 2, FALSE, 1, "false", 2, <<>>, FALSE)

\* beam search of width 2
Beam2(length_penalty, early_stopping) ==
    SamplingParams(2, 2, TRUE, length_penalty, early_stopping, 2, <<>>, FALSE)

ShortPrompt == <<10, 20, 30>>

\* A prompt longer than max_model_len.
LongPrompt == <<10, 20, 30, 10, 20, 30>>

Request(prompt_token_ids, sampling_params) ==
    [prompt_token_ids |-> prompt_token_ids, sampling_params |-> sampling_params]

Sample(output_token, logprob) ==
    [output_token |-> output_token, logprob |-> logprob]

(* A workload fixes what the clients and the sampler may do in a behaviour: *)
(* how many requests arrive and which, how many sequence ids there are,     *)
(* which (token, logprob) the sampler may return and how many samples per   *)
(* parent; in which form a prompt is given to add_request ("ids": as       *)
(* prompt_token_ids; "prompt": as text; "both"; "neither"); and whether     *)
(* abort_request is called for request ids no queued group has.             *)

\* Two requests side by side: greedy, random sampling with n=2, and a
\* prompt that is too long; one fork at most.
EngineWorkload ==
    [max_requests |-> MaxRequests,
     max_seq_ids |-> MaxRequests + 1,
     max_samples |-> MaxSamplesPerParent,
     requests |-> {Request(ShortPrompt, Greedy2), Request(ShortPrompt, Sample2),
                   Request(LongPrompt, Greedy2)},
     given |-> {"ids"},
     abort_unknown |-> FALSE,
     samples |-> {Sample(40, -1), Sample(EosTokenId, -1)}]

\* One request that forks: random sampling with n=2 and beam search, with
\* length_penalty 1 and, for sequences finished late to outscore those
\* finished early, length_penalty 2.
ForkWorkload ==
    [max_requests |-> 1,
     max_seq_ids |-> MaxSeqIds,
     max_samples |-> MaxSamplesPerParent,
     requests |-> {Request(ShortPrompt, Sample2)}
                  \cup {Request(ShortPrompt, Beam2(1, es)) :
                           es \in {"true", "false", "never"}}
                  \cup {Request(ShortPrompt, Beam2(2, "false"))},
     given |-> {"ids"},
     abort_unknown |-> FALSE,
     samples |-> {Sample(40, -1), Sample(50, -2), Sample(EosTokenId, -1)}]

\* One request that forks and runs to its end: random sampling with n=2
\* and beam search of width 2.
LiveWorkload ==
    [max_requests |-> 1,
     max_seq_ids |-> MaxSeqIds,
     max_samples |-> MaxSamplesPerParent,
     requests |-> {Request(ShortPrompt, Sample2),
                   Request(ShortPrompt, Beam2(1, "false")),
                   Request(ShortPrompt, Beam2(1, "true"))},
     given |-> {"ids"},
     abort_unknown |-> FALSE,
     samples |-> {Sample(40, -1), Sample(EosTokenId, -1)}]

\* One request decoded one sample at a time, with every stop condition.
TextWorkload ==
    [max_requests |-> 1,
     max_seq_ids |-> 1,
     max_samples |-> 1,
     requests |-> {Request(ShortPrompt, sp) :
                      sp \in {Greedy2, Greedy10, StopEnd, StopOverlap,
                              StopEmptyString, IgnoreEos}},
     given |-> {"ids"},
     abort_unknown |-> FALSE,
     samples |-> {Sample(40, -1), Sample(50, -2), Sample(60, -1),
                  Sample(EosTokenId, -1)}]

\* The calls of the API in every form: a prompt given as text, as token
\* ids, as both or not at all, request ids used twice, abort_request for
\* request ids that are queued, finished, aborted already or unknown.
ApiWorkload ==
    [max_requests |-> MaxRequests,
     max_seq_ids |-> MaxRequests,
     max_samples |-> 1,
     requests |-> {Request(ShortPrompt, Greedy2), Request(LongPrompt, Greedy2)},
     given |-> {"ids", "prompt", "both", "neither"},
     abort_unknown |-> TRUE,
     samples |-> {Sample(40, -1), Sample(EosTokenId, -1)}]

(* ------------------------------- state --------------------------------- *)

VARIABLES
    seqs,           \* seq_id -> Sequence, every Sequence created so far
    groups,         \* the SequenceGroups, in the order add_request made them
    seq_counter,    \* self.seq_counter: the next sequence id
    waiting,        \* scheduler.waiting: group indices
    running,        \* scheduler.running: group indices
    alloc,          \* block manager: seq_ids that hold a block table
    freed,          \* seq_ids the output processor called free_seq for
    plan,           \* the SchedulerOutputs of the last step()
    pc,             \* "idle" | "scheduled" (step() after _schedule) | "failed"
    executed,       \* execute_model was sent to the workers in this step
    workers_agree,  \* the workers' sampler outputs of this step were equal
    sampled,        \* the first worker's sampler output of the last step()
    calls,          \* scheduler calls of the output processor in the last step()
    checks,         \* _check_stop runs of the last step()
    outputs,        \* what the last step() returned
    last_call,      \* the last call of the API and the exception it raised
    workload,       \* what the clients and the sampler may do (fixed)
    startup,        \* LLMEngine.__init__: workers, cache config, scheduler
    probe           \* one stop decision of the beam search, made in isolation

vars == <<seqs, groups, seq_counter, waiting, running, alloc, freed, plan, pc,
          executed, workers_agree, sampled, calls, checks, outputs, last_call,
          workload, startup, probe>>

\* What add_request, abort_request and step() work on.
engine_vars == <<seqs, groups, seq_counter, waiting, running, alloc, freed,
                 plan, pc, executed, workers_agree, sampled, calls, checks,
                 outputs, last_call, workload>>

\* An optional value: None, or the value given.
None == {}

Given(x) == {x}

ValueOf(opt) == CHOOSE x \in opt : TRUE

\* A call of the API: the operation, the request id it was given (0: none)
\* and the exception it raised ("none": it returned).
Call(op, request_id, raised) ==
    [op |-> op, request_id |-> request_id, raised |-> raised]

(* ------------------------------ __init__ ------------------------------ *)

\* 2**16.  An id of up to 33 bits is kept as two halves, id = hi * Half + lo.
Half == 65536

\* Values random.randint(0, 2**32 - 1) may return: the ends of the range and
\* their neighbours.
RandInts == {[hi |-> h, lo |-> l] : h \in {0, Half - 1}, l \in {0, 1, Half - 2, Half - 1}}

\* Lines 160 and 214: randint(0, 2**32 - 1) + self.replica_id, on Python's
\* unbounded integers.
RendezvousId(draw, replica_id) ==
    [hi |-> draw.hi + ((draw.lo + replica_id) \div Half),
     lo |-> (draw.lo + replica_id) % Half]

\* min(...) over a non-empty set of integers
MinOf(S) == CHOOSE x \in S : \A y \in S : x <= y

\* max(...) over a non-empty set of integers
MaxOf(S) == CHOOSE x \in S : \A y \in S : x >= y

\* The ids Worker.get_gpu_id may return.
GpuIds == 0..MaxGpuId

\* Lines 817-818: list(range(min(gpu_ids), max(gpu_ids) + 1)) equals
\* sorted(gpu_ids): as many ids as the range has numbers, and the same ones.
GpuIdsConsecutive(gpu_ids) ==
    /\ Cardinality(MinOf(Range(gpu_ids))..MaxOf(Range(gpu_ids))) = Len(gpu_ids)
    /\ Range(gpu_ids) = MinOf(Range(gpu_ids))..MaxOf(Range(gpu_ids))

\* Worker.profile_num_available_blocks may return these block counts.
GpuBlockCounts == (-1)..MaxBlocks

CpuBlockCounts == 0..MaxBlocks

\* CacheConfig before _init_cache: num_gpu_blocks and num_cpu_blocks unset.
UnsetCacheConfig == [num_gpu_blocks |-> None, num_cpu_blocks |-> None]

\* Lines 67-113: the engine before it creates its workers.
NewStartup(replica_id, worker_use_ray, world_size) ==
    [phase |-> "init_workers", raised |-> "none",
     replica_id |-> replica_id, worker_use_ray |-> worker_use_ray,
     world_size |-> world_size,
     workers |-> {}, gpu_ids |-> <<>>, init_model |-> {}, num_blocks |-> {},
     cache_config |-> UnsetCacheConfig, init_cache_engine |-> {},
     scheduler |-> None]

\* A constructed engine: replica 0 with the workers of Workers.
Started ==
    [phase |-> "ready", raised |-> "none",
     replica_id |-> 0, worker_use_ray |-> TRUE,
     world_size |-> Cardinality(Workers),
     workers |-> Workers,
     gpu_ids |-> [w \in 1..Cardinality(Workers) |-> w - 1],
     init_model |-> {[worker |-> w, rendezvous_id |-> [hi |-> 0, lo |-> 0]] : w \in Workers},
     num_blocks |-> {[worker |-> w, gpu |-> MaxBlocks, cpu |-> MaxBlocks] : w \in Workers},
     cache_config |-> [num_gpu_blocks |-> Given(MaxBlocks), num_cpu_blocks |-> Given(MaxBlocks)],
     init_cache_engine |-> {[worker |-> w, cache_config |-> [num_gpu_blocks |-> Given(MaxBlocks), num_cpu_blocks |-> Given(MaxBlocks)]] : w \in Workers},
     scheduler |-> Given([num_gpu_blocks |-> Given(MaxBlocks), num_cpu_blocks |-> Given(MaxBlocks)])]

\* The workers profile_num_available_blocks has returned on.
Profiled == {b.worker : b \in startup.num_blocks}

\* Lines 115-118, 140-166 and 168-220: create the workers and send them
\* init_model with the rendezvous id.  Without Ray there is one worker and
\* world_size must be 1 (line 145).  With Ray the workers report their GPU
\* ids, worker by worker, and ids that are not consecutive fail the assert
\* of line 817 before init_model is sent (line 211).
InitWorkers(draw, gpu_ids) ==
    /\ startup.phase = "init_workers"
    /\ IF startup.worker_use_ray
       THEN /\ Len(gpu_ids) = startup.world_size
            /\ IF GpuIdsConsecutive(gpu_ids)
               THEN startup' = [startup EXCEPT
                        !.phase = "profile",
                        !.workers = 1..startup.world_size,
                        !.gpu_ids = gpu_ids,
                        !.init_model = {[worker |-> w, rendezvous_id |-> RendezvousId(draw, startup.replica_id)] : w \in 1..startup.world_size}]
               ELSE startup' = [startup EXCEPT
                        !.phase = "failed",
                        !.raised = "AssertionError",
                        !.workers = 1..startup.world_size,
                        !.gpu_ids = gpu_ids]
       ELSE /\ gpu_ids = <<>>
            /\ IF startup.world_size # 1
               THEN startup' = [startup EXCEPT !.phase = "failed",
                                               !.raised = "AssertionError"]
               ELSE startup' = [startup EXCEPT
                        !.phase = "profile",
                        !.workers = {1},
                        !.init_model = {[worker |-> 1, rendezvous_id |-> RendezvousId(draw, startup.replica_id)]}]
    /\ UNCHANGED <<engine_vars, probe>>

\* Lines 229-235: profile_num_available_blocks returns on one worker.
ProfileNumAvailableBlocks(w, gpu, cpu) ==
    /\ startup.phase = "profile"
    /\ w \in startup.workers \ Profiled
    /\ startup' = [startup EXCEPT !.num_blocks = @ \cup {[worker |-> w, gpu |-> gpu, cpu |-> cpu]}]
    /\ UNCHANGED <<engine_vars, probe>>

\* Lines 240-252 once every worker has answered: the minima, the check and
\* the cache config.
SetCacheConfig(num_gpu_blocks, num_cpu_blocks) ==
    IF num_gpu_blocks <= 0
    THEN [startup EXCEPT !.phase = "failed", !.raised = "ValueError"]
    ELSE [startup EXCEPT !.phase = "init_cache",
                         !.cache_config = [num_gpu_blocks |-> Given(num_gpu_blocks),
                                           num_cpu_blocks |-> Given(num_cpu_blocks)]]

\* An _init_cache that takes the first worker's counts for the budget.
InitCacheFirstWorker ==
    /\ startup.phase = "profile"
    /\ Profiled = startup.workers
    /\ \E b \in {x \in startup.num_blocks : x.worker = MinOf(startup.workers)} :
         startup' = SetCacheConfig(b.gpu, b.cpu)
    /\ UNCHANGED <<engine_vars, probe>>

\* An _init_cache that sets the cache config before it checks the budget.
InitCacheSetsFirst ==
    /\ startup.phase = "profile"
    /\ Profiled = startup.workers
    /\ \E next \in {SetCacheConfig(MinOf({b.gpu : b \in startup.num_blocks}), MinOf({b.cpu : b \in startup.num_blocks}))} :
         startup' = [next EXCEPT !.cache_config =
                        [num_gpu_blocks |-> Given(MinOf({b.gpu : b \in startup.num_blocks})),
                         num_cpu_blocks |-> Given(MinOf({b.cpu : b \in startup.num_blocks}))]]
    /\ UNCHANGED <<engine_vars, probe>>

\* Lines 226-252: _init_cache up to the cache config.
InitCache ==
    /\ startup.phase = "profile"
    /\ Profiled = startup.workers
    /\ startup' = SetCacheConfig(MinOf({b.gpu : b \in startup.num_blocks}),
                                 MinOf({b.cpu : b \in startup.num_blocks}))
    /\ UNCHANGED <<engine_vars, probe>>

\* Line 255: init_cache_engine runs on one worker with the cache config.
InitCacheEngine(w) ==
    /\ startup.phase = "init_cache"
    /\ w \in startup.workers \ {c.worker : c \in startup.init_cache_engine}
    /\ startup' = [startup EXCEPT !.init_cache_engine = @ \cup {[worker |-> w, cache_config |-> startup.cache_config]}]
    /\ UNCHANGED <<engine_vars, probe>>

\* Lines 123-127: every worker has its cache engine; the scheduler is
\* created with the cache config.
CreateScheduler ==
    /\ startup.phase = "init_cache"
    /\ {c.worker : c \in startup.init_cache_engine} = startup.workers
    /\ startup' = [startup EXCEPT !.phase = "ready",
                                  !.scheduler = Given(startup.cache_config)]
    /\ UNCHANGED <<engine_vars, probe>>

(* ---------------- the stop decision of the beam search ----------------- *)

\* The prompt of the beam group.
ProbePrompt == <<10, 20>>

\* A sequence of the group with its tokens, cumulative logprob and status.
ProbeSeq(seq_id, token_ids, cumulative_logprob, status) ==
    [NewSequence(seq_id, ProbePrompt) EXCEPT
        !.token_ids = token_ids,
        !.cumulative_logprob = cumulative_logprob,
        !.status = status,
        !.prompt_tokens_processed = Len(ProbePrompt),
        !.prompt_processing_finished = TRUE]

\* Finished members: stopped by EOS after one or two tokens.
FinishedSeqs == {ProbeSeq(0, t, c, "FINISHED_STOPPED") : t \in {<<10, 20, 40, EosTokenId>>, <<10, 20, 40, 40, EosTokenId>>}, c \in {-2, -3}}

\* Running children: one or two tokens generated.
RunningSeqs == {ProbeSeq(0, t, c, "RUNNING") : t \in {<<10, 20, 40>>, <<10, 20, 40, 40>>}, c \in {-2, -9, -10}}

\* Lists of up to n elements of S.
ListsUpTo(S, lo, n) == UNION {[1..k -> S] : k \in lo..n}

\* Beam width 2 with the given length penalty, early_stopping and max_tokens.
ProbeParams(length_penalty, early_stopping, max_tokens) ==
    SamplingParams(2, 2, TRUE, length_penalty, early_stopping, max_tokens, <<>>, FALSE)

\* No decision is being made.
NoProbe == [phase |-> "none"]

\* The group before the decision: its finished members and its running
\* children, in the order the lists are built (lines 473-477, 504-505).
ProbeInputs ==
    {[phase |-> "input", sampling_params |-> sp, finished |-> f, running |-> r, stop |-> FALSE] :
        sp \in {ProbeParams(lp, es, mt) : lp \in 0..2, es \in {"never", "false", "true"}, mt \in {2, 18}},
        f \in ListsUpTo(FinishedSeqs, 1, MaxFinished),
        r \in ListsUpTo(RunningSeqs, 0, MaxRunning)}

\* The sequences of the group under the ids 0, 1, ...: finished ones first.
ProbeSeqs(finished_seqs, running_seqs) ==
    [i \in 0..(Len(finished_seqs) + Len(running_seqs) - 1) |->
        IF i < Len(finished_seqs)
        THEN [finished_seqs[i + 1] EXCEPT !.seq_id = i]
        ELSE [running_seqs[i - Len(finished_seqs) + 1] EXCEPT !.seq_id = i]]

\* The (seq, parent) items of the ids lo .. hi - 1.
ProbeItems(lo, hi) ==
    [i \in 1..(hi - lo) |-> [seq |-> lo + i - 1, parent |-> lo + i - 1, is_new |-> TRUE]]

\* Lines 478-482 and 506-525: sort both lists by score and decide.
SortAndDecide(ps, sampling_params, finished_items, running_items) ==
    StopBeamSearch(ps, sampling_params,
                   SortByScore(ps, finished_items, sampling_params.length_penalty),
                   SortByScore(ps, running_items, sampling_params.length_penalty))

\* Lines 463-525 for one group: the stop decision.
DecideStop ==
    /\ probe.phase = "input"
    /\ probe' = [probe EXCEPT
           !.phase = "decided",
           !.stop = SortAndDecide(
                        [seqs |-> ProbeSeqs(probe.finished, probe.running)],
                        probe.sampling_params,
                        ProbeItems(0, Len(probe.finished)),
                        ProbeItems(Len(probe.finished),
                                   Len(probe.finished) + Len(probe.running)))]
    /\ UNCHANGED <<engine_vars, startup>>

(* ------------- the finished sequences a beam group keeps --------------- *)

\* The group before the cut: a list of finished sequences of which the
\* first num_existing were members before the step and the others finished
\* in it.
CutInputs ==
    {[phase |-> "cut_input", sampling_params |-> ProbeParams(lp, "false", 2), finished |-> f, num_existing |-> e, ranked |-> <<>>, below |-> <<>>, selected_child_seqs |-> <<>>, unselected_child_seqs |-> <<>>] :
        lp \in 0..2, f \in ListsUpTo(FinishedSeqs, 1, MaxFinished), e \in 0..MaxFinished}

\* Lines 470-499 on the sorted list: the ranking and what falls on either
\* side of the cut.
CutOfSorted(p, all_finished_seqs) ==
    [p EXCEPT !.phase = "cut",
              !.ranked = all_finished_seqs,
              !.below = SelectChildSeqs(p.sampling_params.best_of, all_finished_seqs, <<>>, TRUE).below,
              !.selected_child_seqs = SelectChildSeqs(p.sampling_params.best_of, all_finished_seqs, <<>>, TRUE).selected_child_seqs,
              !.unselected_child_seqs = SelectChildSeqs(p.sampling_params.best_of, all_finished_seqs, <<>>, TRUE).unselected_child_seqs]

\* Lines 470-499 for one group: rank the finished sequences and cut the
\* list at beam_width.
SelectFinished ==
    /\ probe.phase = "cut_input"
    /\ probe.num_existing <= Len(probe.finished)
    /\ \E ps \in {[seqs |-> ProbeSeqs(probe.finished, <<>>)]} :
         probe' = CutOfSorted(
                      probe,
                      SortByScore(ps,
                                  AllFinishedSeqs(ps,
                                                  [i \in 1..(Len(probe.finished) - probe.num_existing) |->
                                                      [seq |-> probe.num_existing + i - 1,
                                                       parent |-> probe.num_existing + i - 1]],
                                                  [i \in 1..probe.num_existing |-> i - 1]),
                                  probe.sampling_params.length_penalty))
    /\ UNCHANGED <<engine_vars, startup>>

EmptyPlan ==
    [scheduled_seq_groups |-> <<>>, prompt_chunk_lens |-> <<>>,
     seq_group_metadata_list |-> <<>>,
     ignored_seq_groups |-> <<>>, blocks_moved |-> FALSE]

InitEngine ==
    /\ seqs = <<>>
    /\ groups = <<>>
    /\ seq_counter = 0
    /\ waiting = <<>>
    /\ running = <<>>
    /\ alloc = {}
    /\ freed = {}
    /\ plan = EmptyPlan
    /\ pc = "idle"
    /\ executed = FALSE
    /\ workers_agree = TRUE
    /\ sampled = <<>>
    /\ calls = <<>>
    /\ checks = <<>>
    /\ outputs = <<>>
    /\ last_call = Call("__init__", 0, "none")

Init ==
    /\ InitEngine
    /\ startup = Started
    /\ probe = NoProbe
    /\ workload = EngineWorkload

InitFork ==
    /\ InitEngine
    /\ startup = Started
    /\ probe = NoProbe
    /\ workload = ForkWorkload

InitText ==
    /\ InitEngine
    /\ startup = Started
    /\ probe = NoProbe
    /\ workload = TextWorkload

InitApi ==
    /\ InitEngine
    /\ startup = Started
    /\ probe = NoProbe
    /\ workload = ApiWorkload

InitLive ==
    /\ InitEngine
    /\ startup = Started
    /\ probe = NoProbe
    /\ workload = LiveWorkload

\* The engine under construction.
InitStartup ==
    /\ InitEngine
    /\ workload = EngineWorkload
    /\ startup \in {NewStartup(r, ray, ws) : r \in 0..MaxReplicaId, ray \in BOOLEAN, ws \in 1..Cardinality(Workers)}
    /\ probe = NoProbe

\* A beam group at its stop decision.
InitBeamStop ==
    /\ InitEngine
    /\ workload = ForkWorkload
    /\ startup = Started
    /\ probe \in ProbeInputs

\* A beam group whose finished sequences are about to be ranked.
InitBeamCut ==
    /\ InitEngine
    /\ workload = ForkWorkload
    /\ startup = Started
    /\ probe \in {p \in CutInputs : p.num_existing <= Len(p.finished)}

\* SchedulerOutputs.is_empty
IsEmpty(plan_) ==
    /\ plan_.scheduled_seq_groups = <<>>
    /\ ~plan_.blocks_moved

\* step() has sent execute_model to the workers and waits for their outputs
\* in ray.get (line 779, called from lines 611-618).
InRayGet == pc = "scheduled" /\ ~IsEmpty(plan)

\* add_request and abort_request run between two steps or, called from
\* another thread, while step() waits for the workers.
Callable == pc = "idle" \/ InRayGet

\* The records of the last step() are dropped by the next call of the API;
\* those of a step() that is under way are kept.
ForgetLastStep ==
    IF InRayGet
    THEN UNCHANGED <<plan, executed, workers_agree, sampled, calls, checks, outputs>>
    ELSE /\ plan' = EmptyPlan
         /\ executed' = FALSE
         /\ workers_agree' = TRUE
         /\ sampled' = <<>>
         /\ calls' = <<>>
         /\ checks' = <<>>
         /\ outputs' = <<>>

(* ----------------------------- add_request ----------------------------- *)

\* Prompt texts.
TxtThe == <<"T", "h", "e">>
TxtStory == <<"S", "t", "o", "r", "y">>

\* tokenizer.encode
Encode(prompt) ==
    IF prompt = TxtThe THEN ShortPrompt ELSE LongPrompt

\* The text a client sends for a request of the workload.
PromptOf(request) ==
    IF request.prompt_token_ids = ShortPrompt THEN TxtThe ELSE TxtStory

\* The prompt argument of add_request in each form of call.
PromptArg(request, given) ==
    IF given \in {"prompt", "both"} THEN Given(PromptOf(request)) ELSE None

\* The prompt_token_ids argument of add_request in each form of call.
PromptTokenIdsArg(request, given) ==
    IF given \in {"ids", "both"} THEN Given(request.prompt_token_ids) ELSE None

\* Lines 309-319: the sequence and its group are made and handed to the
\* scheduler.
CreateSeqGroup(request_id, prompt_token_ids, sampling_params) ==
    /\ seqs' = [i \in (DOMAIN seqs) \cup {seq_counter} |->
                   IF i = seq_counter
                   THEN NewSequence(seq_counter, prompt_token_ids)
                   ELSE seqs[i]]
    /\ seq_counter' = seq_counter + 1
    /\ groups' = Append(groups, [request_id |-> request_id,
                                 seq_ids |-> <<seq_counter>>,
                                 sampling_params |-> sampling_params])
    /\ waiting' = Append(waiting, Len(groups) + 1)

\* An add_request that takes the sequence id before it looks at the prompt.
AddRequestTakesIdFirst(request_id, prompt, prompt_token_ids, sampling_params) ==
    /\ Callable
    /\ Len(groups) < workload.max_requests
    /\ request_id <= Len(groups) + 1
    /\ seq_counter < workload.max_seq_ids
    /\ IF prompt_token_ids = None /\ prompt = None
       THEN /\ last_call' = Call("add_request", request_id, "AssertionError")
            /\ seq_counter' = seq_counter + 1
            /\ UNCHANGED <<seqs, groups, waiting>>
       ELSE /\ last_call' = Call("add_request", request_id, "none")
            /\ CreateSeqGroup(request_id,
                              IF prompt_token_ids = None
                              THEN Encode(ValueOf(prompt))
                              ELSE ValueOf(prompt_token_ids),
                              sampling_params)
    /\ ForgetLastStep
    /\ UNCHANGED <<running, alloc, freed, pc, workload, startup, probe>>

\* LLMEngine.add_request.  Without prompt_token_ids the prompt is encoded;
\* without a prompt either, the assert of line 306 fails.
AddRequest(request_id, prompt, prompt_token_ids, sampling_params) ==
    /\ Callable
    /\ Len(groups) < workload.max_requests
    /\ request_id <= Len(groups) + 1
    /\ seq_counter < workload.max_seq_ids
    /\ IF prompt_token_ids = None /\ prompt = None
       THEN /\ last_call' = Call("add_request", request_id, "AssertionError")
            /\ UNCHANGED <<seqs, groups, seq_counter, waiting>>
       ELSE /\ last_call' = Call("add_request", request_id, "none")
            /\ CreateSeqGroup(request_id,
                              IF prompt_token_ids = None
                              THEN Encode(ValueOf(prompt))
                              ELSE ValueOf(prompt_token_ids),
                              sampling_params)
    /\ ForgetLastStep
    /\ UNCHANGED <<running, alloc, freed, pc, workload, startup, probe>>

(* ---------------------------- abort_request ---------------------------- *)

\* The queued groups of a request id.
QueuedGroupsOf(request_id) ==
    {g \in Range(waiting) \cup Range(running) :
        groups[g].request_id = request_id}

\* Scheduler.abort_seq_group: every queued group of that request id leaves
\* its queue; its unfinished sequences become FINISHED_ABORTED and are
\* freed.  With no such group nothing happens.
AbortSeqGroup(hit, aborted) ==
    /\ seqs' = [sid \in DOMAIN seqs |->
                   IF sid \in aborted
                   THEN [seqs[sid] EXCEPT !.status = "FINISHED_ABORTED"]
                   ELSE seqs[sid]]
    /\ alloc' = alloc \ aborted
    /\ waiting' = SelectSeq(waiting, LAMBDA g : g \notin hit)
    /\ running' = SelectSeq(running, LAMBDA g : g \notin hit)

\* An abort_request that raises for a request id no queued group has.
AbortRequestRaisesIfUnknown(request_id) ==
    /\ Callable
    /\ QueuedGroupsOf(request_id) # {} \/ workload.abort_unknown
    /\ IF QueuedGroupsOf(request_id) = {}
       THEN /\ last_call' = Call("abort_request", request_id, "KeyError")
            /\ UNCHANGED <<seqs, alloc, waiting, running>>
       ELSE /\ last_call' = Call("abort_request", request_id, "none")
            /\ AbortSeqGroup(
                   QueuedGroupsOf(request_id),
                   {sid \in UNION {Range(groups[g].seq_ids) :
                                      g \in QueuedGroupsOf(request_id)} :
                       ~IsFinished(seqs[sid])})
    /\ ForgetLastStep
    /\ UNCHANGED <<groups, seq_counter, freed, pc, workload, startup, probe>>

\* LLMEngine.abort_request
AbortRequest(request_id) ==
    /\ Callable
    /\ QueuedGroupsOf(request_id) # {} \/ workload.abort_unknown
    /\ last_call' = Call("abort_request", request_id, "none")
    /\ AbortSeqGroup(
           QueuedGroupsOf(request_id),
           {sid \in UNION {Range(groups[g].seq_ids) :
                              g \in QueuedGroupsOf(request_id)} :
               ~IsFinished(seqs[sid])})
    /\ ForgetLastStep
    /\ UNCHANGED <<groups, seq_counter, freed, pc, workload, startup, probe>>


(* ------------------------------ schedule ------------------------------- *)

\* The prompt tokens of a group still to be processed (0: decode).
PromptRemaining(seqs_, group) ==
    LET open == {group.seq_ids[i] : i \in 1..Len(group.seq_ids)}
        todo == {seqs_[sid].prompt_len - seqs_[sid].prompt_tokens_processed :
                    sid \in {x \in open : /\ ~IsFinished(seqs_[x])
                                          /\ ~seqs_[x].prompt_processing_finished}}
    IN  IF todo = {} THEN 0 ELSE CHOOSE r \in todo : \A o \in todo : r >= o

\* The chunk lengths a policy may give a group: the next chunk of a pending
\* prompt or all of it, 0 for a decode.
ChunkChoices(seqs_, group) ==
    IF PromptRemaining(seqs_, group) = 0 THEN {0}
    ELSE {Min(ChunkSize, PromptRemaining(seqs_, group)),
          PromptRemaining(seqs_, group)}

\* Scheduler.schedule followed by LLMEngine._schedule, up to the sending of
\* execute_model.  The policy is free: it runs any of the running groups,
\* examines the first k waiting groups (ignoring those whose prompt exceeds
\* max_model_len, admitting the others: their sequences become RUNNING and
\* get their blocks) and may move blocks.  seq_group_metadata_list holds the
\* RUNNING sequences of every scheduled group.
Schedule ==
    /\ pc = "idle"
    /\ \E run_set \in SUBSET Range(running), k \in 0..Len(waiting),
          blocks_moved \in BOOLEAN :
         LET examined == SubSeq(waiting, 1, k)
             too_long(g) == seqs[groups[g].seq_ids[1]].prompt_len > MaxModelLen
             ignored == SelectSeq(examined, too_long)
             admitted == SelectSeq(examined, LAMBDA g : ~too_long(g))
             scheduled == SelectSeq(running, LAMBDA g : g \in run_set) \o admitted
             ignored_ids == UNION {Range(groups[g].seq_ids) : g \in Range(ignored)}
             admitted_ids == UNION {Range(groups[g].seq_ids) : g \in Range(admitted)}
             seqs_ == [sid \in DOMAIN seqs |->
                          IF sid \in ignored_ids
                          THEN [seqs[sid] EXCEPT !.status = "FINISHED_IGNORED"]
                          ELSE IF sid \in admitted_ids
                          THEN [seqs[sid] EXCEPT !.status = "RUNNING"]
                          ELSE seqs[sid]]
         IN  \E chunks \in [1..Len(scheduled) -> 0..MaxModelLen] :
               /\ \A i \in 1..Len(scheduled) :
                      chunks[i] \in ChunkChoices(seqs_, groups[scheduled[i]])
               /\ seqs' = seqs_
               /\ alloc' = alloc \cup admitted_ids
               /\ waiting' = SubSeq(waiting, k + 1, Len(waiting))
               /\ running' = running \o admitted
               /\ plan' = [scheduled_seq_groups |-> scheduled,
                           prompt_chunk_lens |-> chunks,
                           seq_group_metadata_list |->
                               [i \in 1..Len(scheduled) |->
                                   GetSeqs([seqs |-> seqs_, groups |-> groups],
                                           scheduled[i], "RUNNING")],
                           ignored_seq_groups |-> ignored,
                           blocks_moved |-> blocks_moved]
    /\ pc' = "scheduled"
    /\ last_call' = Call("step", 0, "none")
    /\ executed' = FALSE
    /\ workers_agree' = TRUE
    /\ sampled' = <<>>
    /\ calls' = <<>>
    /\ checks' = <<>>
    /\ outputs' = <<>>
    /\ UNCHANGED <<groups, seq_counter, freed, workload, startup, probe>>

(* -------------------------------- step --------------------------------- *)

\* A step that returns nothing for an empty plan.
StepEmptyReturnsNothing ==
    /\ pc = "scheduled"
    /\ IsEmpty(plan)
    /\ outputs' = <<>>
    /\ pc' = "idle"
    /\ UNCHANGED <<seqs, groups, seq_counter, waiting, running, alloc, freed,
                   plan, executed, workers_agree, sampled, calls, checks, last_call,
                   workload, startup, probe>>

\* LLMEngine.step, lines 607-608: an empty plan returns the ignored groups.
StepEmpty ==
    /\ pc = "scheduled"
    /\ IsEmpty(plan)
    /\ outputs' = RequestOutputs(seqs, groups, plan.ignored_seq_groups)
    /\ pc' = "idle"
    /\ UNCHANGED <<seqs, groups, seq_counter, waiting, running, alloc, freed,
                   plan, executed, workers_agree, sampled, calls, checks, last_call,
                   workload, startup, probe>>

\* The sample lists the sampler may return for one RUNNING parent: k
\* samples, each any of the workload's (token, logprob).
SamplesOfParent(parent, k) ==
    [1..k -> {[parent_seq_id |-> parent, output_token |-> c.output_token,
               logprob |-> c.logprob] : c \in workload.samples}]

\* The sample lists for the RUNNING parents of the scheduled groups, group
\* by group and parent by parent: 0..max_samples samples per parent, as long
\* as the forks they cause (one per sample but the last of a parent) find a
\* sequence id among the `ids` left.  parents is a list of parent lists.
RECURSIVE SamplerOutputs(_, _)
SamplerOutputs(parents, ids) ==
    IF parents = <<>> THEN {<<>>}
    ELSE IF Head(parents) = <<>>
    THEN {<<<<>>>> \o rest : rest \in SamplerOutputs(Tail(parents), ids)}
    ELSE UNION {
           {<<a \o rest[1]>> \o Tail(rest) :
               a \in SamplesOfParent(Head(Head(parents)), k),
               rest \in SamplerOutputs(<<Tail(Head(parents))>> \o Tail(parents),
                                       ids - Max(k - 1, 0))} :
           k \in {j \in 0..workload.max_samples : Max(j - 1, 0) <= ids}}

\* A replica's output that differs from `output`: a sample list one short.
DivergentOutputs(output) ==
    {[output EXCEPT ![j] = SubSeq(@, 1, Len(@) - 1)] :
        j \in {i \in 1..Len(output) : output[i] # <<>>}}

\* A gate that lets every output through.
WorkersAgreeAlways(worker_outputs) == TRUE

\* Line 623: assert all(output == outputs[0] for output in outputs)
WorkersAgree(worker_outputs) ==
    \A w \in Workers : worker_outputs[w] = worker_outputs[1]

EngineState ==
    [seqs |-> seqs, groups |-> groups, alloc |-> alloc, freed |-> freed,
     counter |-> seq_counter, running |-> running, calls |-> calls,
     checks |-> checks, raised |-> "none"]

\* LLMEngine.step, lines 610-644, from the return of ray.get: the workers
\* have executed the plan as it was sent, on the sequences that were RUNNING
\* then; pass the equality gate, process the first worker's output.  A
\* KeyError of the processing ends the step where it is raised.
StepExecute ==
    /\ pc = "scheduled"
    /\ ~IsEmpty(plan)
    /\ \E output \in SamplerOutputs(plan.seq_group_metadata_list,
                                     workload.max_seq_ids - seq_counter) :
         \E other \in {output} \cup DivergentOutputs(output) :
           \E worker_outputs \in {[w \in Workers |->
                                     IF w = 1 THEN output ELSE other]} :
              /\ executed' = TRUE
              /\ workers_agree' = (output = other)
              /\ sampled' = worker_outputs[1]
              /\ IF WorkersAgree(worker_outputs)
                 THEN \E done \in {ProcessModelOutputs(EngineState, plan,
                                                       worker_outputs[1])} :
                        /\ seqs' = done.ps.seqs
                        /\ groups' = done.ps.groups
                        /\ alloc' = done.ps.alloc
                        /\ freed' = done.ps.freed
                        /\ seq_counter' = done.ps.counter
                        /\ running' = done.ps.running
                        /\ calls' = done.ps.calls
                        /\ checks' = done.ps.checks
                        /\ IF done.ps.raised = "none"
                           THEN /\ outputs' = done.request_outputs
                                              \o RequestOutputs(seqs, groups,
                                                                plan.ignored_seq_groups)
                                /\ pc' = "idle"
                                /\ last_call' = Call("step", 0, "none")
                           ELSE /\ pc' = "failed"
                                /\ last_call' = Call("step", 0, done.ps.raised)
                                /\ UNCHANGED outputs
                 ELSE /\ pc' = "failed"
                      /\ last_call' = Call("step", 0, "AssertionError")
                      /\ UNCHANGED <<seqs, groups, alloc, freed, seq_counter,
                                     running, calls, checks, outputs>>
    /\ UNCHANGED <<waiting, plan, workload, startup, probe>>

Next ==
    \/ \E request_id \in RequestIds, request \in workload.requests,
          given \in workload.given :
         AddRequest(request_id, PromptArg(request, given),
                    PromptTokenIdsArg(request, given), request.sampling_params)
    \/ \E request_id \in RequestIds : AbortRequest(request_id)
    \/ Schedule
    \/ StepEmpty
    \/ StepExecute

Spec == Init /\ [][Next]_vars

SpecFork == InitFork /\ [][Next]_vars

SpecText == InitText /\ [][Next]_vars

SpecApi == InitApi /\ [][Next]_vars

\* A Scheduler.schedule whose plan holds group g, scheduled or ignored.
ScheduleGroup(g) ==
    /\ Schedule
    /\ g \in Range(plan'.scheduled_seq_groups) \cup Range(plan'.ignored_seq_groups)

\* The scheduler of a loop that calls step() again and again: it is asked
\* for a plan whenever the engine is idle, and it plans every group it holds
\* again and again.
StepLoop ==
    /\ WF_vars(Schedule)
    /\ \A g \in RequestIds : SF_vars(ScheduleGroup(g))

SpecLive == InitLive /\ [][Next]_vars /\ StepLoop

\* LLMEngine.__init__ from the creation of the workers to the scheduler.
NextStartup ==
    \/ \E draw \in RandInts, gpu_ids \in ListsUpTo(GpuIds, 0, Cardinality(Workers)) :
         InitWorkers(draw, gpu_ids)
    \/ \E w \in Workers, gpu \in GpuBlockCounts, cpu \in CpuBlockCounts :
         ProfileNumAvailableBlocks(w, gpu, cpu)
    \/ InitCache
    \/ \E w \in Workers : InitCacheEngine(w)
    \/ CreateScheduler

SpecStartup == InitStartup /\ [][NextStartup]_vars

NextBeamStop == DecideStop

SpecBeamStop == InitBeamStop /\ [][NextBeamStop]_vars

NextBeamCut == SelectFinished

SpecBeamCut == InitBeamCut /\ [][NextBeamCut]_vars

(* ------------------- fork and free of the block manager ---------------- *)

IsFork(c) == c.op = "fork_seq"

IsFree(c) == c.op = "free_seq"

\* C1, as stated: in the calls of one step(), over all scheduled groups and
\* all phases of _process_sequence_group_samples, every fork_seq call comes
\* before every free_seq call.
C1_EveryForkBeforeEveryFree ==
    \A i, j \in 1..Len(calls) :
        (IsFree(calls[i]) /\ IsFork(calls[j])) => j < i

\* C1, amended: in the calls of one step(), a free_seq call that comes
\* before a fork_seq call is either the free of a parent the sampler
\* returned no sample for (line 419) or was issued while another group was
\* processed; within one group every fork_seq call comes before every
\* free_seq call of a continued or unselected parent.
C1_ForksBeforeFreesWithinBranch ==
    \A i, j \in 1..Len(calls) :
        (IsFree(calls[i]) /\ IsFork(calls[j]) /\ i < j)
            => (calls[i].site = "no_samples" \/ calls[i].group # calls[j].group)

\* A step in which one group forked a child and then freed a finished or
\* unselected parent.
C1_Witness ==
    \E i, j \in 1..Len(calls) :
        /\ i < j
        /\ IsFork(calls[i])
        /\ IsFree(calls[j])
        /\ calls[i].group = calls[j].group
        /\ calls[j].site \in {"finished_parent", "unselected_parent"}

\* C2: fork_seq(parent, child) is only issued for a parent that free_seq
\* was never called for and that still holds its block table.
C2_ForkSourceHoldsBlocks ==
    \A i \in 1..Len(calls) :
        IsFork(calls[i]) => (~calls[i].freed_before /\ calls[i].held)

\* A step that forked a child from a parent and freed that parent.
C2_Witness ==
    \E i, j \in 1..Len(calls) :
        /\ i < j
        /\ IsFork(calls[i])
        /\ IsFree(calls[j])
        /\ calls[j].seq = calls[i].parent
        /\ calls[j].held

\* C10: every sequence group whose members are all finished has no member
\* left with a block table in the block manager.
C10_FinishedGroupsHoldNoBlocks ==
    \A g \in 1..Len(groups) :
        GroupIsFinished(seqs, groups[g])
            => \A i \in 1..Len(groups[g].seq_ids) : groups[g].seq_ids[i] \notin alloc

\* A step left a finished group of two or more members, one of them a
\* parent whose blocks free_seq released.
C10_Witness ==
    /\ pc = "idle"
    /\ executed
    /\ \E g \in 1..Len(groups) :
         /\ GroupIsFinished(seqs, groups[g])
         /\ Len(groups[g].seq_ids) >= 2
         /\ \E i \in 1..Len(calls) :
              /\ IsFree(calls[i])
              /\ calls[i].held
              /\ calls[i].seq \in Range(groups[g].seq_ids)

(* ----------------------------- the step driver ------------------------- *)

\* The part of the engine that the output processor writes.
processor_vars == <<seqs, groups, seq_counter, running, alloc, freed>>

\* C3: a step() in which a worker's sampler output differs from the first
\* worker's fails with nothing applied: no token appended, no status
\* changed, no fork_seq, free_seq or free_finished_seq_groups call, nothing
\* returned.
C3_DivergentWorkersFailBeforeSamples ==
    [][(pc = "scheduled" /\ executed' /\ ~workers_agree')
          => /\ pc' = "failed"
             /\ UNCHANGED processor_vars
             /\ UNCHANGED waiting
             /\ calls' = <<>>
             /\ checks' = <<>>
             /\ outputs' = <<>>]_vars

\* A step() failed on the equality of the workers' outputs while it had
\* running sequences scheduled.
C3_Witness ==
    /\ pc = "failed"
    /\ executed
    /\ ~workers_agree
    /\ \E i \in 1..Len(plan.scheduled_seq_groups) :
         GetSeqs(EngineState, plan.scheduled_seq_groups[i], "RUNNING") # <<>>

\* C4: a step() whose plan has no scheduled group and moves no block
\* returns the RequestOutputs of the ignored groups, sends nothing to the
\* workers and leaves sequences, groups, queues and block tables as they
\* are, with no scheduler call.
C4_EmptyPlanReturnsIgnoredOnly ==
    [][(pc = "scheduled" /\ plan.scheduled_seq_groups = <<>>
                         /\ ~plan.blocks_moved)
          => /\ pc' = "idle"
             /\ outputs' = [i \in 1..Len(plan.ignored_seq_groups) |->
                               RequestOutputFromSeqGroup(
                                   seqs, plan.ignored_seq_groups[i],
                                   groups[plan.ignored_seq_groups[i]])]
             /\ ~executed'
             /\ UNCHANGED processor_vars
             /\ UNCHANGED waiting
             /\ calls' = <<>>
             /\ checks' = <<>>]_vars

\* A step() with an empty plan returned the output of an ignored group.
C4_Witness ==
    /\ pc = "idle"
    /\ ~executed
    /\ plan.scheduled_seq_groups = <<>>
    /\ ~plan.blocks_moved
    /\ plan.ignored_seq_groups # <<>>
    /\ Len(outputs) = Len(plan.ignored_seq_groups)
    /\ outputs[1].finished

\* C5: what a step() with a non-empty plan returns holds a RequestOutput
\* for every scheduled group and for every ignored group.
C5_OutputForEveryScheduledAndIgnoredGroup ==
    (pc = "idle" /\ executed)
        => \A g \in Range(plan.scheduled_seq_groups)
                    \cup Range(plan.ignored_seq_groups) :
               \E i \in 1..Len(outputs) :
                   /\ outputs[i].group = g
                   /\ outputs[i].request_id = groups[g].request_id

\* A step() returned outputs for a scheduled group it finished and for an
\* ignored group.
C5_Witness ==
    /\ pc = "idle"
    /\ executed
    /\ plan.ignored_seq_groups # <<>>
    /\ \E i \in 1..Len(outputs) :
         /\ outputs[i].group \in Range(plan.scheduled_seq_groups)
         /\ outputs[i].finished
    /\ \E i \in 1..Len(outputs) :
         outputs[i].group \in Range(plan.ignored_seq_groups)

(* ------------------------------ _check_stop --------------------------- *)

\* The status the four conditions give in their order of priority.
StatusByPriority(c, sampling_params) ==
    IF \E k \in 1..Len(sampling_params.stop) :
           EndsWith(c.text, sampling_params.stop[k])
    THEN "FINISHED_STOPPED"
    ELSE IF c.total_len > MaxModelLen THEN "FINISHED_LENGTH_CAPPED"
    ELSE IF c.output_len = sampling_params.max_tokens
    THEN "FINISHED_LENGTH_CAPPED"
    ELSE IF c.last_token = EosTokenId /\ ~sampling_params.ignore_eos
    THEN "FINISHED_STOPPED"
    ELSE "RUNNING"

\* C6: every _check_stop run leaves the status that the first holding
\* condition gives, in the order stop string, max_model_len, max_tokens,
\* EOS; none holding leaves RUNNING.
C6_CheckStopPriority ==
    \A i \in 1..Len(checks) :
        checks[i].status
            = StatusByPriority(checks[i], groups[checks[i].group].sampling_params)

\* A sequence reached max_tokens with EOS as its last token and ended
\* FINISHED_LENGTH_CAPPED.
C6_Witness ==
    \E i \in 1..Len(checks) :
        /\ checks[i].output_len = groups[checks[i].group].sampling_params.max_tokens
        /\ checks[i].last_token = EosTokenId
        /\ ~groups[checks[i].group].sampling_params.ignore_eos
        /\ checks[i].status = "FINISHED_LENGTH_CAPPED"

\* C7, as stated: for every stop string s, a decoded output_text that ends
\* with s finishes the sequence as FINISHED_STOPPED and leaves the text with
\* exactly the suffix s removed.
C7_StopSuffixRemovedExactly ==
    \A i \in 1..Len(checks) :
        \A k \in 1..Len(groups[checks[i].group].sampling_params.stop) :
            LET s == groups[checks[i].group].sampling_params.stop[k]
            IN  EndsWith(checks[i].text, s)
                    => /\ checks[i].status = "FINISHED_STOPPED"
                       /\ checks[i].output_text
                              = SubSeq(checks[i].text, 1,
                                       Len(checks[i].text) - Len(s))

(* ------------------------------ scenarios ------------------------------ *)

\* The one sequence of a group made by add_request with n = 1.
OnlySeq(g) == seqs[groups[g].seq_ids[1]]

\* The last step() executed group g and its sampler returned `token` for it.
SampledToken(g, token) ==
    /\ pc = "idle"
    /\ executed
    /\ \E i \in 1..Len(plan.scheduled_seq_groups) :
         /\ plan.scheduled_seq_groups[i] = g
         /\ Len(sampled[i]) = 1
         /\ sampled[i][1].output_token = token

\* EOS termination: a request of a 3-token prompt with n = 1, no stop
\* string, ignore_eos false and max_tokens = 10 got 40 and now EOS.
EosScenario(g) ==
    /\ groups[g].sampling_params = Greedy10
    /\ Len(groups[g].seq_ids) = 1
    /\ OnlySeq(g).prompt_len = Len(ShortPrompt)
    /\ GetOutputLen(OnlySeq(g)) = 2
    /\ GetOutputTokenIds(OnlySeq(g))[1] = 40
    /\ SampledToken(g, EosTokenId)

\* The RequestOutput of group g in what the last step() returned shows one
\* finished sequence with these generated token ids and this status.
Reported(g, token_ids, finish_reason) ==
    \E i \in 1..Len(outputs) :
        /\ outputs[i].group = g
        /\ outputs[i].finished
        /\ Len(outputs[i].outputs) = 1
        /\ outputs[i].outputs[1].token_ids = token_ids
        /\ outputs[i].outputs[1].finish_reason = finish_reason

\* C8, as stated: in the EOS scenario the request finishes at the second
\* sampled token as FINISHED_STOPPED and reports the generated tokens [40].
C8_EosNotAmongOutputTokens ==
    \A g \in 1..Len(groups) :
        EosScenario(g) => Reported(g, <<40>>, "FINISHED_STOPPED")

\* C8, amended: in the EOS scenario the request finishes at the second
\* sampled token as FINISHED_STOPPED and reports the generated tokens
\* [40, EOS]; the EOS token adds nothing to output_text, which is " quick".
C8_EosEndsRequestAndIsReported ==
    \A g \in 1..Len(groups) :
        EosScenario(g)
            => /\ Reported(g, <<40, EosTokenId>>, "FINISHED_STOPPED")
               /\ OnlySeq(g).output_text = TxtQuick

\* The EOS scenario happened.
C8_Witness ==
    \E g \in 1..Len(groups) :
        /\ EosScenario(g)
        /\ OnlySeq(g).status = "FINISHED_STOPPED"

\* Single greedy request: a 3-token prompt, n = 1, max_tokens = 2, no stop
\* string.
GreedyScenario(g) ==
    /\ groups[g].sampling_params = Greedy2
    /\ Len(groups[g].seq_ids) = 1
    /\ OnlySeq(g).prompt_len = Len(ShortPrompt)

\* C9: in the greedy scenario the request is unfinished after the step
\* that samples 40, is reported finished with the tokens [40, 50] and
\* FINISHED_LENGTH_CAPPED after the step that samples 50, and is in no
\* later plan.
C9_GreedyRequestEndsAtMaxTokens ==
    \A g \in 1..Len(groups) :
        GreedyScenario(g)
            => /\ (GetOutputTokenIds(OnlySeq(g)) = <<40>> /\ SampledToken(g, 40))
                      => ~IsFinished(OnlySeq(g))
               /\ (GetOutputTokenIds(OnlySeq(g)) = <<40, 50>> /\ SampledToken(g, 50))
                      => Reported(g, <<40, 50>>, "FINISHED_LENGTH_CAPPED")
               /\ GetOutputTokenIds(OnlySeq(g)) = <<40, 50>>
                      => /\ OnlySeq(g).status = "FINISHED_LENGTH_CAPPED"
                         /\ g \notin Range(running)
                         /\ (g \in Range(plan.scheduled_seq_groups))
                                => SampledToken(g, 50)

\* The greedy scenario ended: 40 and 50 sampled, the request reported
\* finished.
C9_Witness ==
    \E g \in 1..Len(groups) :
        /\ GreedyScenario(g)
        /\ GetOutputTokenIds(OnlySeq(g)) = <<40, 50>>
        /\ SampledToken(g, 50)
        /\ Reported(g, <<40, 50>>, "FINISHED_LENGTH_CAPPED")

(* ------------------------------ beam search --------------------------- *)

\* The finished members of a group, as a set of Sequence objects.
FinishedMembers(seqs_, group) ==
    {seqs_[group.seq_ids[i]] :
        i \in {j \in 1..Len(group.seq_ids) : IsFinished(seqs_[group.seq_ids[j]])}}

\* The beam-search score of a finished member.
FinalScore(seq, group) ==
    GetBeamSearchScore(seq, group.sampling_params.length_penalty, 0)

\* C11: for a beam-search group that has finished members, every step
\* leaves a finished member whose score is at least the score of every
\* finished member there was before: the best finished score never falls.
C11_BestFinishedScoreNeverFalls ==
    [][\A g \in 1..Len(groups) :
          (groups[g].sampling_params.use_beam_search
           /\ FinishedMembers(seqs, groups[g]) # {})
              => \E new \in FinishedMembers(seqs', groups'[g]) :
                     \A old \in FinishedMembers(seqs, groups[g]) :
                         ScoreGeq(FinalScore(new, groups'[g]),
                                  FinalScore(old, groups[g]))]_vars

\* A step of a beam-search group finished a sequence that scores better
\* than a member of the group finished in an earlier step.
C11_Witness ==
    /\ pc = "idle"
    /\ executed
    /\ \E g \in 1..Len(groups) :
         /\ groups[g].sampling_params.use_beam_search
         /\ \E new, old \in FinishedMembers(seqs, groups[g]) :
              /\ \E i \in 1..Len(checks) : checks[i].seq = new.seq_id
              /\ \A i \in 1..Len(checks) : checks[i].seq # old.seq_id
              /\ ~ScoreGeq(FinalScore(old, groups[g]), FinalScore(new, groups[g]))

(* ------------------------ add_request, abort_request ------------------- *)

\* C13, as stated: the request ids of the sequence groups add_request
\* created are pairwise distinct.
C13_RequestIdsDistinct ==
    \A g, h \in 1..Len(groups) :
        g # h => groups[g].request_id # groups[h].request_id

\* What add_request and abort_request may write.
api_vars == <<seqs, groups, seq_counter, waiting, running, alloc, freed, pc>>

\* C14: an add_request call with neither a prompt nor prompt_token_ids
\* raises and leaves the sequence counter, the sequences, the groups and
\* the scheduler's queues as they were.
C14_AddRequestWithoutPromptFails ==
    [][\A request_id \in RequestIds, request \in workload.requests :
          AddRequest(request_id, None, None, request.sampling_params)
              => /\ last_call' = Call("add_request", request_id, "AssertionError")
                 /\ UNCHANGED api_vars]_vars

\* add_request was called with neither a prompt nor prompt_token_ids on an
\* engine that has a request queued already.
C14_Witness ==
    /\ last_call.op = "add_request"
    /\ last_call.raised = "AssertionError"
    /\ waiting # <<>>
    /\ seq_counter = Len(groups)

\* C15: an abort_request(r) that follows an abort_request(r) raises nothing
\* and leaves queues, sequence statuses and block tables as the first call
\* left them.
C15_AbortTwiceIsAbortOnce ==
    [][\A request_id \in RequestIds :
          (last_call = Call("abort_request", request_id, "none")
           /\ AbortRequest(request_id))
              => /\ last_call' = Call("abort_request", request_id, "none")
                 /\ UNCHANGED api_vars]_vars

\* abort_request(r) has aborted a running sequence of request r.
C15_Witness ==
    /\ last_call.op = "abort_request"
    /\ last_call.raised = "none"
    /\ QueuedGroupsOf(last_call.request_id) = {}
    /\ \E g \in 1..Len(groups) :
         /\ groups[g].request_id = last_call.request_id
         /\ \E i \in 1..Len(groups[g].seq_ids) :
              /\ seqs[groups[g].seq_ids[i]].status = "FINISHED_ABORTED"
              /\ GetOutputLen(seqs[groups[g].seq_ids[i]]) > 0

(* ------------------------- what step() returns ------------------------ *)

\* C19, as stated: the list a step() returned holds exactly one
\* RequestOutput for every scheduled group and every ignored group of its
\* plan, whether the plan was empty or not.
C19_OneOutputPerPlanGroup ==
    (pc = "idle" /\ last_call.op = "step")
        => \A g \in Range(plan.scheduled_seq_groups)
                    \cup Range(plan.ignored_seq_groups) :
               Cardinality({i \in 1..Len(outputs) : outputs[i].group = g}) = 1

(* ------------------------------ free_seq ------------------------------ *)

\* C20: every free_seq call of the output processor is for a sequence that
\* holds a block table at that moment and that free_seq was never called
\* for before, in this step or an earlier one; a new child that finished in
\* the step that created it has no block table and is not freed.
C20_FreeSeqOnceAndOnlyIfHeld ==
    /\ \A i \in 1..Len(calls) :
         IsFree(calls[i]) => (calls[i].held /\ ~calls[i].freed_before)
    /\ \A i, j \in 1..Len(calls) :
         (IsFree(calls[i]) /\ IsFree(calls[j]) /\ calls[i].seq = calls[j].seq)
             => i = j

\* A step freed a parent that held blocks, and a new child finished in the
\* same step without being forked or freed.
C20_Witness ==
    /\ pc = "idle"
    /\ executed
    /\ \E i \in 1..Len(calls) : IsFree(calls[i]) /\ calls[i].held
    /\ \E c \in 1..Len(checks) :
         /\ IsFinished(seqs[checks[c].seq])
         /\ checks[c].seq \notin freed
         /\ \A i \in 1..Len(calls) : calls[i].seq # checks[c].seq
    /\ \E s \in freed : IsFinished(seqs[s])
                         /\ \A i \in 1..Len(calls) : calls[i].seq # s

(* ------------------- early_stopping = "never" -------------------------- *)

\* cumulative logprob / length ** length_penalty, as a fraction
ScoreAtLength(seq, length_penalty, len) ==
    [num |-> seq.cumulative_logprob, den |-> Pow(len, length_penalty)]

\* The score of a member at its own length, a closing EOS not counted.
CurrentScore(seq, length_penalty) ==
    ScoreAtLength(seq, length_penalty,
                  IF seq.token_ids[Len(seq.token_ids)] = EosTokenId
                  THEN Len(seq.token_ids) - 1 ELSE Len(seq.token_ids))

\* The members of the list that are its k-th best by score.
KthBest(list, k, length_penalty) ==
    {i \in 1..Len(list) :
        /\ Cardinality({j \in 1..Len(list) :
               ~ScoreGeq(CurrentScore(list[i], length_penalty),
                         CurrentScore(list[j], length_penalty))}) < k
        /\ Cardinality({j \in 1..Len(list) :
               ScoreGeq(CurrentScore(list[j], length_penalty),
                        CurrentScore(list[i], length_penalty))}) >= k}

\* The length the attainable score of a running child is taken at under
\* early_stopping = "never".
NeverLength(seq, sampling_params) ==
    IF sampling_params.length_penalty > 0
    THEN Max(seq.prompt_len + sampling_params.max_tokens, MaxModelLen)
    ELSE Len(seq.token_ids)

\* a = b on fractions
ScoreEq(a, b) == ScoreGeq(a, b) /\ ScoreGeq(b, a)

\* C12: with early_stopping "never", beam_width or more finished sequences
\* and a running child, the search stops iff the score of the
\* beam_width-th best finished sequence is >= the score of the best running
\* child taken at length max(prompt_len + max_tokens, max_model_len) when
\* length_penalty > 0 and at its current length otherwise; against a worst
\* score of -0.5 it continues for an attainable -0.45 and stops for -0.5.
C12_NeverStopsIffWorstReachesAttainable ==
    (/\ probe.phase = "decided"
     /\ probe.sampling_params.early_stopping = "never"
     /\ Len(probe.finished) >= probe.sampling_params.best_of
     /\ Len(probe.running) >= 1)
        => \A w \in KthBest(probe.finished, probe.sampling_params.best_of, probe.sampling_params.length_penalty),
              b \in KthBest(probe.running, 1, probe.sampling_params.length_penalty) :
             \A worst \in {CurrentScore(probe.finished[w], probe.sampling_params.length_penalty)},
                attainable \in {ScoreAtLength(probe.running[b], probe.sampling_params.length_penalty, NeverLength(probe.running[b], probe.sampling_params))} :
                 /\ probe.stop <=> ScoreGeq(worst, attainable)
                 /\ (ScoreEq(worst, [num |-> -1, den |-> 2]) /\ ScoreEq(attainable, [num |-> -9, den |-> 20]))
                        => ~probe.stop
                 /\ (ScoreEq(worst, [num |-> -1, den |-> 2]) /\ ScoreEq(attainable, [num |-> -1, den |-> 2]))
                        => probe.stop

\* Beam width 2 with length_penalty 1 and three finished sequences, the
\* second best at -0.5; the running child can reach -0.45 at length 20 and
\* the search continues.
C12_Witness ==
    /\ probe.phase = "decided"
    /\ probe.sampling_params.early_stopping = "never"
    /\ probe.sampling_params.length_penalty = 1
    /\ Len(probe.finished) = 3
    /\ Len(probe.running) >= 1
    /\ \E w \in KthBest(probe.finished, 2, 1), b \in KthBest(probe.running, 1, 1) :
         /\ ScoreEq(CurrentScore(probe.finished[w], 1), [num |-> -1, den |-> 2])
         /\ ScoreEq(ScoreAtLength(probe.running[b], 1, NeverLength(probe.running[b], probe.sampling_params)), [num |-> -9, den |-> 20])
         /\ ~ScoreGeq(CurrentScore(probe.running[b], 1), [num |-> -1, den |-> 2])
    /\ ~probe.stop

(* ------------------------------ startup ------------------------------- *)

\* C16: every init_cache_engine call is made after
\* profile_num_available_blocks has returned on every worker, and carries
\* a cache config whose num_gpu_blocks is the least GPU count and whose
\* num_cpu_blocks is the least CPU count the workers returned.
C16_CacheEngineGetsMinimaAfterProfiling ==
    \A c \in startup.init_cache_engine :
        /\ Profiled = startup.workers
        /\ \A w \in startup.workers : \E b \in startup.num_blocks : b.worker = w
        /\ c.cache_config.num_gpu_blocks # None
        /\ c.cache_config.num_cpu_blocks # None
        /\ \A b \in startup.num_blocks :
             /\ ValueOf(c.cache_config.num_gpu_blocks) <= b.gpu
             /\ ValueOf(c.cache_config.num_cpu_blocks) <= b.cpu
        /\ \E b \in startup.num_blocks : b.gpu = ValueOf(c.cache_config.num_gpu_blocks)
        /\ \E b \in startup.num_blocks : b.cpu = ValueOf(c.cache_config.num_cpu_blocks)

\* init_cache_engine has run on two workers; one worker gave the least GPU
\* count, the other the least CPU count.
C16_Witness ==
    /\ Cardinality({c.worker : c \in startup.init_cache_engine}) = 2
    /\ \E b1, b2 \in startup.num_blocks :
         /\ b1.worker # b2.worker
         /\ b1.gpu < b2.gpu
         /\ b2.cpu < b1.cpu
         /\ \A c \in startup.init_cache_engine :
              c.cache_config = [num_gpu_blocks |-> Given(b1.gpu),
                                num_cpu_blocks |-> Given(b2.cpu)]

\* C17: once every worker has answered and _init_cache has taken the
\* minimum, a least GPU count <= 0 means startup has failed with an error,
\* the cache config is unset, no worker got init_cache_engine and there is
\* no scheduler.
C17_NoGpuBlocksFailsStartup ==
    (/\ startup.phase \notin {"init_workers", "profile"}
     /\ \E b \in startup.num_blocks : b.gpu <= 0)
        => /\ startup.phase = "failed"
           /\ startup.raised = "ValueError"
           /\ startup.cache_config.num_gpu_blocks = None
           /\ startup.cache_config.num_cpu_blocks = None
           /\ startup.init_cache_engine = {}
           /\ startup.scheduler = None

\* Startup failed although one of the two workers had GPU blocks to give.
C17_Witness ==
    /\ startup.phase = "failed"
    /\ startup.raised = "ValueError"
    /\ \E b1, b2 \in startup.num_blocks : b1.gpu = 0 /\ b2.gpu > 0 /\ b2.cpu > 0

\* C18, as stated: the rendezvous id init_model receives lies in
\* 0 .. 2^32 - 1.
C18_RendezvousIdIn32Bits ==
    \A m \in startup.init_model :
        /\ m.rendezvous_id.hi \in 0..(Half - 1)
        /\ m.rendezvous_id.lo \in 0..(Half - 1)

(* ------------------------- beam search: the group --------------------- *)

\* The members of the group with one of the statuses.
MembersIn(seqs_, group, statuses) ==
    {i \in 1..Len(group.seq_ids) : seqs_[group.seq_ids[i]].status \in statuses}

\* The step decided to stop the beam search of group g.
SearchStopped(g) ==
    \E i \in 1..Len(calls) :
        calls[i].op = "stop_beam_search" /\ calls[i].group = g /\ calls[i].site = "stop"

\* C21: after a step has processed a beam-search group, the group has at
\* most beam_width finished members and at most beam_width RUNNING members,
\* and no RUNNING member when the step decided to stop the search.
C21_BeamGroupWithinBeamWidth ==
    (pc = "idle" /\ executed)
        => \A k \in 1..Len(plan.scheduled_seq_groups) :
             \A g \in {plan.scheduled_seq_groups[k]} :
               groups[g].sampling_params.use_beam_search
                 => /\ Cardinality(MembersIn(seqs, groups[g], FinishedStatuses))
                          <= groups[g].sampling_params.best_of
                    /\ Cardinality(MembersIn(seqs, groups[g], {"RUNNING"}))
                          <= groups[g].sampling_params.best_of
                    /\ SearchStopped(g)
                          => MembersIn(seqs, groups[g], {"RUNNING"}) = {}

\* A step stopped the search of a beam group that had running children of
\* which a continued parent was one; the group is left with beam_width
\* finished members.
C21_Witness ==
    /\ pc = "idle"
    /\ executed
    /\ \E g \in Range(plan.scheduled_seq_groups) :
         /\ groups[g].sampling_params.use_beam_search
         /\ SearchStopped(g)
         /\ \E i \in 1..Len(calls) :
              /\ IsFree(calls[i])
              /\ calls[i].group = g
              /\ calls[i].site = "unselected_parent"
              /\ seqs[calls[i].seq].status = "RUNNING"
         /\ Cardinality(MembersIn(seqs, groups[g], FinishedStatuses))
              = groups[g].sampling_params.best_of

(* ----------------------- the order of the stop decision --------------- *)

\* C22: the search stops when no running child remains; otherwise it
\* continues when fewer than beam_width finished sequences exist, whatever
\* early_stopping is; otherwise it stops if early_stopping is true, and if
\* early_stopping is false it stops iff the score of the beam_width-th best
\* finished sequence is >= the score of the best running child at its
\* current length.
C22_StopDecisionOrder ==
    probe.phase = "decided"
        => IF Len(probe.running) = 0 THEN probe.stop
           ELSE IF Len(probe.finished) < probe.sampling_params.best_of THEN ~probe.stop
           ELSE /\ probe.sampling_params.early_stopping = "true" => probe.stop
                /\ probe.sampling_params.early_stopping = "false"
                     => \A w \in KthBest(probe.finished, probe.sampling_params.best_of, probe.sampling_params.length_penalty),
                           b \in KthBest(probe.running, 1, probe.sampling_params.length_penalty) :
                          probe.stop <=> ScoreGeq(CurrentScore(probe.finished[w], probe.sampling_params.length_penalty),
                                                  CurrentScore(probe.running[b], probe.sampling_params.length_penalty))

\* early_stopping is true, a child is running and one finished sequence
\* exists for a beam width of 2: the search continues.
C22_Witness ==
    /\ probe.phase = "decided"
    /\ probe.sampling_params.early_stopping = "true"
    /\ probe.sampling_params.best_of = 2
    /\ Len(probe.finished) = 1
    /\ Len(probe.running) = 2
    /\ ~probe.stop

(* --------------------- ties among finished sequences ------------------ *)

\* The finished sequence of the group an item of the ranking stands for.
RankedSeq(item) == probe.finished[item.seq + 1]

\* The two sequences have the same score.
Tie(a, b) ==
    ScoreEq(CurrentScore(a, probe.sampling_params.length_penalty),
            CurrentScore(b, probe.sampling_params.length_penalty))

\* C23: finished sequences with equal scores are ranked in insertion order,
\* the existing ones before those that finished in this step, so no existing
\* finished sequence falls below the beam_width cut while a newly finished
\* sequence of equal score is kept.
C23_TiesKeepInsertionOrder ==
    probe.phase = "cut"
        => /\ \A i, j \in 1..Len(probe.ranked) :
                (i < j /\ Tie(RankedSeq(probe.ranked[i]), RankedSeq(probe.ranked[j])))
                    => probe.ranked[i].seq < probe.ranked[j].seq
           /\ \A i \in 1..Len(probe.below), j \in 1..Len(probe.selected_child_seqs) :
                ~probe.below[i].is_new
                    => ~Tie(RankedSeq(probe.below[i]), RankedSeq(probe.selected_child_seqs[j]))

\* Beam width 2, three finished sequences with one score: the two existing
\* ones are kept and the new one falls below the cut.
C23_Witness ==
    /\ probe.phase = "cut"
    /\ Len(probe.finished) = 3
    /\ probe.num_existing = 2
    /\ probe.finished[1] # probe.finished[2]
    /\ \A i, j \in 1..3 : Tie(probe.finished[i], probe.finished[j])
    /\ probe.selected_child_seqs = <<>>
    /\ Len(probe.unselected_child_seqs) = 1
    /\ \A i \in 1..Len(probe.below) : probe.below[i].is_new

(* ----------------------- a parent without samples --------------------- *)

\* The step from (seqs, groups, plan) to the primed state is a step() that
\* executed the plan and processed the sampler's output.
Processed == pc = "scheduled" /\ pc' = "idle" /\ executed'

\* The RUNNING members of the k-th scheduled group before the step.
ParentsOf(k) == Range(GetSeqs(EngineState, plan.scheduled_seq_groups[k], "RUNNING"))

\* The samples the sampler returned for the parent in the step.
SamplesFor(k, parent) ==
    {i \in 1..Len(sampled'[k]) : sampled'[k][i].parent_seq_id = parent}

\* C24: a RUNNING parent of a scheduled group that receives no sample in a
\* step is FINISHED_ABORTED after it, is no member of its group any more,
\* has had free_seq called for it exactly once, and has the tokens it had.
C24_ParentWithoutSamplesIsAborted ==
    [][Processed
         => \A k \in 1..Len(plan.scheduled_seq_groups) :
              \A parent \in ParentsOf(k) :
                SamplesFor(k, parent) = {}
                  => /\ seqs'[parent].status = "FINISHED_ABORTED"
                     /\ parent \notin Range(groups'[plan.scheduled_seq_groups[k]].seq_ids)
                     /\ Cardinality({i \in 1..Len(calls') :
                            IsFree(calls'[i]) /\ calls'[i].seq = parent}) = 1
                     /\ parent \in freed' /\ parent \notin alloc'
                     /\ seqs'[parent].token_ids = seqs[parent].token_ids]_vars

\* A step in which one parent of a group got no sample and was freed while
\* another parent of the group was continued.
C24_Witness ==
    /\ pc = "idle"
    /\ executed
    /\ \E i \in 1..Len(calls) :
         /\ IsFree(calls[i])
         /\ calls[i].site = "no_samples"
         /\ calls[i].held
         /\ seqs[calls[i].seq].status = "FINISHED_ABORTED"
         /\ GetOutputLen(seqs[calls[i].seq]) > 0
         /\ \E c \in 1..Len(checks) :
              checks[c].group = calls[i].group /\ checks[c].seq # calls[i].seq

(* ------------------------- a parent with samples ---------------------- *)

\* The samples of the step for the parent, in the sampler's order.
SampleList(k, parent) ==
    SelectSeq(sampled'[k], LAMBDA x : x.parent_seq_id = parent)

\* The forks the step owes: one for every sample of a parent but its last.
OwedForks ==
    {f \in UNION {{<<k, parent, i>> : parent \in ParentsOf(k), i \in 1..workload.max_samples} :
                     k \in 1..Len(plan.scheduled_seq_groups)} :
        f[3] < Len(SampleList(f[1], f[2]))}

\* The sequences the step created.
CreatedSeqs == (DOMAIN seqs') \ (DOMAIN seqs)

\* The parent's tokens before the step plus the token of the sample.
WithToken(k, parent, sample) == Append(seqs[parent].token_ids, sample.output_token)

\* The same, where a step whose chunk leaves a part of the prompt pending
\* appends nothing.
WithTokenOncePromptConsumed(k, parent, sample) ==
    IF \/ seqs[parent].prompt_processing_finished
       \/ seqs[parent].prompt_tokens_processed + plan.prompt_chunk_lens[k]
              >= seqs[parent].prompt_len
    THEN Append(seqs[parent].token_ids, sample.output_token)
    ELSE seqs[parent].token_ids

\* A step forks k - 1 sequences for a parent with k samples, under ids no
\* sequence had before, holding Tokens(k, parent, sample), and continues the
\* parent itself with its last sample.
ForksAndContinues(Tokens(_, _, _)) ==
    /\ Cardinality(CreatedSeqs) = Cardinality(OwedForks)
    /\ \A c \in CreatedSeqs : c >= seq_counter /\ seqs'[c].seq_id = c
    /\ \A c \in DOMAIN seqs : c < seq_counter
    /\ \A f \in OwedForks :
         Cardinality({c \in CreatedSeqs :
                         seqs'[c].token_ids = Tokens(f[1], f[2], SampleList(f[1], f[2])[f[3]])})
           = Cardinality({h \in OwedForks :
                             Tokens(h[1], h[2], SampleList(h[1], h[2])[h[3]])
                               = Tokens(f[1], f[2], SampleList(f[1], f[2])[f[3]])})
    /\ \A k \in 1..Len(plan.scheduled_seq_groups) :
         \A parent \in ParentsOf(k) :
           SampleList(k, parent) # <<>>
             => /\ seqs'[parent].seq_id = parent
                /\ seqs'[parent].token_ids
                     = Tokens(k, parent, SampleList(k, parent)[Len(SampleList(k, parent))])

\* C25, as stated: for a RUNNING parent with k >= 1 samples the step creates
\* exactly k - 1 sequences, each under an id no sequence of the engine had
\* before and each holding the parent's tokens as they were plus its own
\* sampled token, and appends the token of the k-th sample to the parent.
C25_ForksHoldParentTokensPlusSample ==
    [][Processed => ForksAndContinues(WithToken)]_vars

\* C25, amended: the same, where the sampled token is appended to the fork
\* and to the parent only if the prompt is fully processed once the step's
\* chunk is counted; in a step that leaves a part of the prompt pending the
\* forks and the parent hold the parent's tokens as they were.
C25_ForksHoldParentTokensPlusSampleOncePromptConsumed ==
    [][Processed => ForksAndContinues(WithTokenOncePromptConsumed)]_vars

\* A step forked a sequence from a parent with two samples: the fork has
\* a new id and holds the prompt and the token of the first sample, the
\* parent holds the prompt and the token of the second sample.
C25_Witness ==
    /\ pc = "idle"
    /\ executed
    /\ Len(sampled) >= 1
    /\ Len(sampled[1]) = 2
    /\ sampled[1][1].output_token # sampled[1][2].output_token
    /\ \E i \in 1..Len(calls) :
         /\ IsFork(calls[i])
         /\ calls[i].seq > calls[i].parent
         /\ calls[i].parent = sampled[1][1].parent_seq_id
         /\ calls[i].parent = sampled[1][2].parent_seq_id
         /\ seqs[calls[i].seq].token_ids
              = Append(SubSeq(seqs[calls[i].parent].token_ids, 1,
                              seqs[calls[i].parent].prompt_len),
                       sampled[1][1].output_token)
         /\ seqs[calls[i].parent].token_ids
              = Append(SubSeq(seqs[calls[i].parent].token_ids, 1,
                              seqs[calls[i].parent].prompt_len),
                       sampled[1][2].output_token)

(* ------------------------------ max_tokens ---------------------------- *)

\* C26: a sequence of a request with max_tokens >= 1 never has more than
\* max_tokens generated tokens, and one that has max_tokens of them is
\* finished; so it is for the members of the groups and for every sequence
\* _check_stop ran on in the last step, those the beam search dropped
\* included.
C26_GeneratedLengthWithinMaxTokens ==
    /\ \A g \in 1..Len(groups) :
         groups[g].sampling_params.max_tokens >= 1
           => \A i \in 1..Len(groups[g].seq_ids) :
                /\ GetOutputLen(seqs[groups[g].seq_ids[i]]) <= groups[g].sampling_params.max_tokens
                /\ GetOutputLen(seqs[groups[g].seq_ids[i]]) = groups[g].sampling_params.max_tokens
                     => IsFinished(seqs[groups[g].seq_ids[i]])
    /\ \A c \in 1..Len(checks) :
         groups[checks[c].group].sampling_params.max_tokens >= 1
           => /\ checks[c].output_len <= groups[checks[c].group].sampling_params.max_tokens
              /\ checks[c].output_len = groups[checks[c].group].sampling_params.max_tokens
                   => checks[c].status \in FinishedStatuses

\* A forked sequence got its second token, neither EOS nor one that makes
\* it longer than max_model_len, and was finished by max_tokens = 2.
C26_Witness ==
    /\ pc = "idle"
    /\ executed
    /\ \E c \in 1..Len(checks) :
         /\ checks[c].seq > 0
         /\ groups[checks[c].group].sampling_params.max_tokens = 2
         /\ checks[c].output_len = 2
         /\ checks[c].total_len <= MaxModelLen
         /\ checks[c].last_token # EosTokenId
         /\ checks[c].status = "FINISHED_LENGTH_CAPPED"
         /\ seqs[checks[c].seq].status = "FINISHED_LENGTH_CAPPED"

(* ----------------------------- max_model_len -------------------------- *)

\* C27: a sequence whose prompt is no longer than max_model_len never holds
\* more than max_model_len + 1 tokens, and one that holds more than
\* max_model_len tokens is finished.
C27_TotalLengthWithinMaxModelLen ==
    /\ \A sid \in DOMAIN seqs :
         seqs[sid].prompt_len <= MaxModelLen
           => /\ GetLen(seqs[sid]) <= MaxModelLen + 1
              /\ GetLen(seqs[sid]) > MaxModelLen => IsFinished(seqs[sid])
    /\ \A c \in 1..Len(checks) :
         seqs[checks[c].seq].prompt_len <= MaxModelLen
           => /\ checks[c].total_len <= MaxModelLen + 1
              /\ checks[c].total_len > MaxModelLen
                   => checks[c].status \in FinishedStatuses

\* A sequence of a request with max_tokens = 10 was capped by max_model_len
\* on its third generated token, which was not EOS.
C27_Witness ==
    /\ pc = "idle"
    /\ executed
    /\ \E c \in 1..Len(checks) :
         /\ checks[c].total_len = MaxModelLen + 1
         /\ checks[c].output_len < groups[checks[c].group].sampling_params.max_tokens
         /\ checks[c].last_token # EosTokenId
         /\ checks[c].status = "FINISHED_LENGTH_CAPPED"
         /\ seqs[checks[c].seq].status = "FINISHED_LENGTH_CAPPED"
         /\ GetLen(seqs[checks[c].seq]) = MaxModelLen + 1

(* ----------------------- a prompt still pending ----------------------- *)

\* The text state of a sequence: what _decode_sequence and _check_stop write.
TextState(seq) ==
    [output_text |-> seq.output_text, read_offset |-> seq.read_offset,
     decoded |-> seq.decoded, status |-> seq.status]

\* The parents of the k-th scheduled group that got a sample in the step:
\* append_token_id is called on them and on the forks made from them.
AppendedOf(k) ==
    {parent \in ParentsOf(k) : SamplesFor(k, parent) # {}}

\* C29: a sequence whose prompt is still pending after the append_token_id
\* of a step is neither detokenized nor stop-checked in that step: its
\* output_text, its detokenizer offsets and its RUNNING status are what they
\* were (for a fork: what its parent's were), and no stop check ran on it;
\* a sequence that a stop check finished has its prompt fully processed.
C29_PendingPromptIsNotDecodedNorChecked ==
    /\ [](\A sid \in DOMAIN seqs :
            seqs[sid].status \in {"FINISHED_STOPPED", "FINISHED_LENGTH_CAPPED"}
              => seqs[sid].prompt_processing_finished)
    /\ [][Processed
            => /\ \A c \in Len(checks) + 1..Len(checks') :
                    seqs'[checks'[c].seq].prompt_processing_finished
               /\ \A k \in 1..Len(plan.scheduled_seq_groups) :
                    \A parent \in AppendedOf(k) :
                      ~seqs'[parent].prompt_processing_finished
                        => /\ seqs'[parent].status = "RUNNING"
                           /\ TextState(seqs'[parent]) = TextState(seqs[parent])
               /\ \A c \in CreatedSeqs :
                    ~seqs'[c].prompt_processing_finished
                      => /\ seqs'[c].status = "RUNNING"
                         /\ \E k \in 1..Len(plan.scheduled_seq_groups) :
                              \E parent \in AppendedOf(k) :
                                TextState(seqs'[c]) = TextState(seqs[parent])]_vars

\* A step ran a two-token chunk of a three-token prompt and the sampler
\* returned a token for the sequence: the sequence is RUNNING with two prompt
\* tokens processed, no output text, and no stop check on record.
C29_Witness ==
    /\ pc = "idle"
    /\ executed
    /\ \E k \in 1..Len(sampled) :
         \E i \in 1..Len(sampled[k]) :
           /\ sampled[k][i].parent_seq_id \in DOMAIN seqs
           /\ ~seqs[sampled[k][i].parent_seq_id].prompt_processing_finished
           /\ seqs[sampled[k][i].parent_seq_id].prompt_tokens_processed = ChunkSize
           /\ seqs[sampled[k][i].parent_seq_id].prompt_len > ChunkSize
           /\ seqs[sampled[k][i].parent_seq_id].status = "RUNNING"
           /\ ~seqs[sampled[k][i].parent_seq_id].decoded
           /\ seqs[sampled[k][i].parent_seq_id].output_text = <<>>
           /\ \A c \in 1..Len(checks) :
                checks[c].seq # sampled[k][i].parent_seq_id

(* ------------------------------ termination --------------------------- *)

\* Scheduler.has_unfinished_seqs, as LLMEngine.has_unfinished_requests reads it.
HasUnfinishedRequests == waiting # <<>> \/ running # <<>>

\* Request g was added with max_tokens >= 1.
Added(g) ==
    g <= Len(groups) /\ groups[g].sampling_params.max_tokens >= 1

\* Every member sequence of request g is finished.
AllMembersFinished(g) ==
    g <= Len(groups) /\ GroupIsFinished(seqs, groups[g])

\* Every step() that scheduled returned: none is left hanging and none
\* raised on workers that disagree.
StepsReturn == []<>(pc = "idle")

\* C28: if step() is called again and again, the scheduler plans every
\* unfinished group in infinitely many steps (with a chunk of at least one
\* token while its prompt is pending) and the workers always agree, then
\* every request added with max_tokens >= 1 eventually has all its member
\* sequences finished, and has_unfinished_requests is false again and again.
C28_EveryRequestFinishes ==
    StepsReturn
      => /\ \A g \in RequestIds : Added(g) ~> AllMembersFinished(g)
         /\ []<>(~HasUnfinishedRequests)

\* A beam-search request ran through a step that left two RUNNING members
\* and is now finished with every member finished, after steps only.
C28_Witness ==
    /\ pc = "idle"
    /\ executed
    /\ workers_agree
    /\ ~HasUnfinishedRequests
    /\ Len(groups) = 1
    /\ groups[1].sampling_params.use_beam_search
    /\ Len(groups[1].seq_ids) >= 2
    /\ AllMembersFinished(1)
    /\ \A i \in 1..Len(groups[1].seq_ids) :
         seqs[groups[1].seq_ids[i]].status
           \in {"FINISHED_STOPPED", "FINISHED_LENGTH_CAPPED"}
    /\ \E i \in 1..Len(groups[1].seq_ids) :
         GetOutputLen(seqs[groups[1].seq_ids[i]]) = groups[1].sampling_params.max_tokens

=============================================================================
